---- MODULE Spec2Model ----
(***************************************************************************)
(* Deposit tracking and refund authorisation of the relay worker           *)
(* (server/src/index.ts): the session registry, the deposit ledger, the    *)
(* refund validator and the transaction submitter.                         *)
(***************************************************************************)
EXTENDS Integers, Sequences, FiniteSets, TLC

VARIABLES
    accountStore,   \* Map<string, AccountSession>: lower-cased address -> session
    nextRef,        \* identity of the next DepositRecord object put in a ledger
    refund,         \* POST /account/refund invocations: position and locals
    sentTx,         \* number of transactions the wallet client has broadcast
    head,           \* block number of the chain head
    ensure,         \* ensureDepositWatcher invocations: position and locals
    watchers,       \* watchContractEvent subscriptions
    onLogs          \* onLogs invocations: position and locals

vars == <<accountStore, nextRef, refund, sentTx, head, ensure, watchers, onLogs>>

refundVars == <<refund, sentTx>>
ingestVars == <<head, ensure, watchers, onLogs>>

----------------------------------------------------------------------------
(* Bounds of the model *)

\* Concurrent POST /account/refund invocations.
MaxRequests == 2
\* Fields of a well-formed refund request that a caller alters at once.
MaxTampers == 2
\* DepositRecord objects ever inserted in ledgers.
MaxRecords == 4
\* Transactions the relay broadcasts.
MaxBroadcasts == 2
\* Retained deposits per session; the source keeps 20 (index.ts:88).
MAX_DEPOSITS == 2
\* Blocks the chain grows to.
MaxHead == 2
\* Concurrent ensureDepositWatcher invocations.
MaxEnsures == 2
\* watchContractEvent subscriptions ever created.
MaxWatchers == 2
\* Concurrent onLogs invocations.
MaxOnLogs == 1
\* Height of the chain when the server starts, in the runs of SpecFetch.
MaxFetchHead == 5
\* Backfill lookback in blocks; the source looks back 2000 (index.ts:89).
DEFAULT_LOOKBACK_BLOCKS == 2
\* Block span of one getLogs query; the source asks for 10 (index.ts:90).
MAX_GET_LOGS_RANGE == 2

----------------------------------------------------------------------------
(* Program constants *)

USDC_DECIMALS == 6
MIN_USDC_DEPOSIT == 10 ^ USDC_DECIMALS

----------------------------------------------------------------------------
(* Addresses: an identity and a spelling (checksummed mixed case, or all   *)
(* lower case).  === compares spellings, toLowerCase folds them.           *)

Addr(id, mixed) == [id |-> id, mixed |-> mixed]

toLowerCase(a) == [a EXCEPT !.mixed = FALSE]

normalizeAddress(value) == toLowerCase(value)

USDC_ADDRESS == Addr("usdc", TRUE)

ACCOUNT == Addr("account", TRUE)
ALICE == Addr("alice", TRUE)
BOB == Addr("bob", TRUE)
MALLORY == Addr("mallory", TRUE)

CredentialIds == {"cred1", "cred2"}

----------------------------------------------------------------------------
(* Transfer events of the token contract addressed to the account. *)

Log(tx, idx, blk, from, value) ==
    [transactionHash |-> tx, logIndex |-> idx, blockNumber |-> blk,
     from |-> from, value |-> value]

LogAtThreshold == Log("0x111", 0, 1, ALICE, MIN_USDC_DEPOSIT)
LogBelowThreshold == Log("0x111", 1, 1, BOB, MIN_USDC_DEPOSIT - 1)
LogLater == Log("0x222", 0, 2, ALICE, MIN_USDC_DEPOSIT + 1)

ChainLogs == {LogAtThreshold, LogBelowThreshold, LogLater}

\* block.timestamp of a block of the chain.
BlockTimestamp(blockNumber) == 1700000000 + 12 * blockNumber

----------------------------------------------------------------------------
(* Session registry *)

NoSession == [absent |-> TRUE]
NoBlock == -1
NoHash == 0

getAccountSession(store, address) ==
    IF normalizeAddress(address) \in DOMAIN store
    THEN store[normalizeAddress(address)]
    ELSE NoSession

\* upsertAccountSession starting the session anew on every call.
upsertAccountSessionAnew(store, address, credentialId) ==
    LET key == normalizeAddress(address)
        session == [credentialId |-> credentialId,
                    accountAddress |-> address,
                    deposits |-> <<>>,
                    stopWatching |-> FALSE,
                    isWatching |-> FALSE,
                    lastSyncedBlock |-> NoBlock]
    IN IF key \in DOMAIN store
       THEN [store EXCEPT ![key] = session]
       ELSE (key :> session) @@ store

upsertAccountSession(store, address, credentialId) ==
    LET key == normalizeAddress(address)
        existing == getAccountSession(store, address)
    IN IF existing # NoSession
       THEN [store EXCEPT ![key] = [existing EXCEPT !.credentialId = credentialId,
                                                     !.accountAddress = address]]
       ELSE (key :> [credentialId |-> credentialId,
                     accountAddress |-> address,
                     deposits |-> <<>>,
                     stopWatching |-> FALSE,
                     isWatching |-> FALSE,
                     lastSyncedBlock |-> NoBlock]) @@ store

----------------------------------------------------------------------------
(* Deposit ledger *)

\* DepositRecord with ready only above the threshold.
DepositRecordAboveOnly(log, blockTimestamp, ref) ==
    [sender |-> log.from,
     amount |-> log.value,
     txHash |-> log.transactionHash,
     logIndex |-> log.logIndex,
     blockNumber |-> log.blockNumber,
     blockTimestamp |-> blockTimestamp,
     ready |-> log.value > MIN_USDC_DEPOSIT,
     refunded |-> FALSE,
     refundTxHash |-> NoHash,
     ref |-> ref]

DepositRecord(log, blockTimestamp, ref) ==
    [sender |-> log.from,
     amount |-> log.value,
     txHash |-> log.transactionHash,
     logIndex |-> log.logIndex,
     blockNumber |-> log.blockNumber,
     blockTimestamp |-> blockTimestamp,
     ready |-> log.value >= MIN_USDC_DEPOSIT,
     refunded |-> FALSE,
     refundTxHash |-> NoHash,
     ref |-> ref]

IsDuplicate(deposits, record) ==
    \E i \in DOMAIN deposits :
        /\ deposits[i].txHash = record.txHash
        /\ deposits[i].logIndex = record.logIndex

\* recordDeposit without the duplicate test.
recordDepositUnchecked(deposits, record) ==
    LET unshifted == <<record>> \o deposits
    IN IF Len(unshifted) > MAX_DEPOSITS
       THEN SubSeq(unshifted, 1, Len(unshifted) - 1)
       ELSE unshifted

\* recordDeposit that never drops a record.
recordDepositKeepsAll(deposits, record) ==
    IF IsDuplicate(deposits, record)
    THEN deposits
    ELSE <<record>> \o deposits

recordDeposit(deposits, record) ==
    IF IsDuplicate(deposits, record)
    THEN deposits
    ELSE LET unshifted == <<record>> \o deposits
         IN IF Len(unshifted) > MAX_DEPOSITS
            THEN SubSeq(unshifted, 1, Len(unshifted) - 1)
            ELSE unshifted

----------------------------------------------------------------------------
(* Refund request bodies (RefundRequestBody).  Numbers travel as strings;  *)
(* BigInt() of a string that is no integer literal throws.                 *)

Dec(n) == [numeric |-> TRUE, value |-> n]
NotANumber == [numeric |-> FALSE, value |-> 0]

BigIntThrows(s) == ~s.numeric
BigInt(s) == s.value

\* Call data: the function its 4-byte selector names and the arguments.
\* "unknown" is a selector that no function of the ABI has.
TokenCall(fn, recipient, amount) ==
    [functionName |-> fn, args |-> [recipient |-> recipient, amount |-> amount]]

Call(target, value, data) == [target |-> target, value |-> value, data |-> data]

AccountCall(fn, wellFormed, calls) ==
    [functionName |-> fn,
     args |-> [executionData |-> [wellFormed |-> wellFormed, calls |-> calls]]]

\* Functions of accountWebAuthnAbi and of usdcAbi.
AccountAbiFunctions == {"execute", "initializeWebAuthn"}
UsdcAbiFunctions == {"balanceOf", "decimals", "transfer"}

\* The request the client builds for a deposit it was shown: a transfer of
\* the deposit's amount back to its sender.
RefundBodyFor(log) ==
    [accountAddress |-> ACCOUNT,
     credentialId |-> "cred1",
     metadata |-> [challengeIndex |-> Dec(23), typeIndex |-> Dec(1)],
     rHex |-> [size |-> 32],
     sHex |-> [size |-> 32],
     nonce |-> Dec(0),
     deposit |-> [txHash |-> log.transactionHash,
                  sender |-> log.from,
                  amount |-> Dec(log.value),
                  logIndex |-> log.logIndex],
     userOp |-> [sender |-> ACCOUNT,
                 preVerificationGas |-> Dec(100000),
                 callData |-> AccountCall("execute", TRUE,
                     <<Call(USDC_ADDRESS, 0,
                            TokenCall("transfer", log.from, log.value))>>)]]

OtherAmount(n) == IF n = MIN_USDC_DEPOSIT THEN MIN_USDC_DEPOSIT - 1 ELSE MIN_USDC_DEPOSIT

OtherParty(a) == IF a.id = "alice" THEN [a EXCEPT !.id = "mallory"] ELSE [a EXCEPT !.id = "alice"]

Calls(b) == b.userOp.callData.args.executionData.calls

WithCalls(b, calls) == [b EXCEPT !.userOp.callData.args.executionData.calls = calls]

WithFirstCall(b, call) ==
    IF Calls(b) = <<>> THEN b ELSE WithCalls(b, <<call>> \o Tail(Calls(b)))

TamperKinds ==
    {"accountAddress", "accountAddressCase", "credentialId", "challengeIndex", "rHex", "nonce",
     "depositAmountText", "depositAmount", "depositTxHash", "depositLogIndex",
     "depositSender", "depositSenderCase",
     "userOpSender", "preVerificationGas",
     "outerFunction", "outerSelector", "executionData", "emptyBatch", "extraCall",
     "target", "value", "tokenFunction", "tokenSelector",
     "recipient", "recipientCase", "transferAmount"}

\* The request b with one field altered.
Tamper(b, kind) ==
    LET first == Calls(b)[1] IN
    CASE kind = "accountAddress" -> [b EXCEPT !.accountAddress = MALLORY]
      [] kind = "accountAddressCase" ->
            [b EXCEPT !.accountAddress = toLowerCase(b.accountAddress)]
      [] kind = "credentialId" -> [b EXCEPT !.credentialId = "cred2"]
      [] kind = "challengeIndex" -> [b EXCEPT !.metadata.challengeIndex = NotANumber]
      [] kind = "rHex" -> [b EXCEPT !.rHex = [size |-> 31]]
      [] kind = "nonce" -> [b EXCEPT !.nonce = NotANumber]
      [] kind = "depositAmountText" -> [b EXCEPT !.deposit.amount = NotANumber]
      [] kind = "depositAmount" ->
            [b EXCEPT !.deposit.amount = Dec(OtherAmount(b.deposit.amount.value))]
      [] kind = "depositTxHash" -> [b EXCEPT !.deposit.txHash = "0x999"]
      [] kind = "depositLogIndex" -> [b EXCEPT !.deposit.logIndex = 7]
      [] kind = "depositSender" -> [b EXCEPT !.deposit.sender = OtherParty(b.deposit.sender)]
      [] kind = "depositSenderCase" -> [b EXCEPT !.deposit.sender = toLowerCase(b.deposit.sender)]
      [] kind = "userOpSender" -> [b EXCEPT !.userOp.sender = MALLORY]
      [] kind = "preVerificationGas" -> [b EXCEPT !.userOp.preVerificationGas = NotANumber]
      [] kind = "outerFunction" -> [b EXCEPT !.userOp.callData.functionName = "initializeWebAuthn"]
      [] kind = "outerSelector" -> [b EXCEPT !.userOp.callData.functionName = "unknown"]
      [] kind = "executionData" ->
            [b EXCEPT !.userOp.callData.args.executionData.wellFormed = FALSE]
      [] kind = "emptyBatch" -> WithCalls(b, <<>>)
      [] kind = "extraCall" ->
            WithCalls(b, Calls(b) \o <<Call(USDC_ADDRESS, 0,
                                            TokenCall("transfer", MALLORY, 1))>>)
      [] kind = "target" -> WithFirstCall(b, [first EXCEPT !.target = MALLORY])
      [] kind = "value" -> WithFirstCall(b, [first EXCEPT !.value = 1])
      [] kind = "tokenFunction" ->
            WithFirstCall(b, [first EXCEPT !.data.functionName = "balanceOf"])
      [] kind = "tokenSelector" ->
            WithFirstCall(b, [first EXCEPT !.data.functionName = "unknown"])
      [] kind = "recipient" ->
            WithFirstCall(b, [first EXCEPT !.data.args.recipient =
                                               OtherParty(first.data.args.recipient)])
      [] kind = "recipientCase" ->
            WithFirstCall(b, [first EXCEPT !.data.args.recipient =
                                               toLowerCase(first.data.args.recipient)])
      [] kind = "transferAmount" ->
            WithFirstCall(b, [first EXCEPT !.data.args.amount =
                                               OtherAmount(first.data.args.amount)])

\* The requests a caller submits: a well-formed request for a deposit of the
\* chain with at most MaxTampers fields altered.
WellFormedBodies == {RefundBodyFor(log) : log \in {LogAtThreshold, LogBelowThreshold}}

RECURSIVE TamperedUpTo(_)
TamperedUpTo(n) ==
    IF n = 0 THEN WellFormedBodies
    ELSE LET fewer == TamperedUpTo(n - 1)
         IN fewer \cup {Tamper(b, kind) : b \in fewer, kind \in TamperKinds}

RequestBodies == TamperedUpTo(MaxTampers)

----------------------------------------------------------------------------
(* POST /account/refund: validation (index.ts:436-560).  The result is the *)
(* response the handler returns, or the hand-over to the submitter.        *)

Reject(status, error) ==
    [pass |-> FALSE, status |-> status, error |-> error, thrown |-> "", stored |-> 0]

\* An exception lands in the handler's catch: 500, "Failed to refund: <error>".
Thrown(name) ==
    [pass |-> FALSE, status |-> 500, error |-> "Failed to refund", thrown |-> name,
     stored |-> 0]

\* All checks passed: stored is the ledger position of storedDeposit.
Pass(stored) ==
    [pass |-> TRUE, status |-> 0, error |-> "", thrown |-> "", stored |-> stored]

\* session.deposits.find(...): the first matching position, 0 for undefined.
FindDeposit(deposits, deposit, depositAmount) ==
    LET matches == {i \in DOMAIN deposits :
                        /\ deposits[i].txHash = deposit.txHash
                        /\ deposits[i].logIndex = deposit.logIndex
                        /\ toLowerCase(deposits[i].sender) = toLowerCase(deposit.sender)
                        /\ deposits[i].amount = depositAmount}
    IN IF matches = {} THEN 0 ELSE CHOOSE i \in matches : \A j \in matches : i <= j

\* encodeAbiParameters of the signature: bytes32 values must be 32 bytes long.
EncodeSignatureThrows(body) == body.rHex.size # 32 \/ body.sHex.size # 32

\* ValidateFirstCall without the recipient check.
ValidateFirstCallAnyRecipient(body, storedDeposit, stored) ==
    LET first == Calls(body)[1]
        decodedTokenCall == first.data
    IN IF toLowerCase(first.target) # toLowerCase(USDC_ADDRESS)
       THEN Reject(400, "Execution target must be USDC")
       ELSE IF first.value # 0
       THEN Reject(400, "USDC transfer cannot include ETH value")
       ELSE IF decodedTokenCall.functionName \notin UsdcAbiFunctions
       THEN Thrown("AbiFunctionSignatureNotFoundError")
       ELSE IF decodedTokenCall.functionName # "transfer"
       THEN Reject(400, "USDC call must be transfer")
       ELSE IF decodedTokenCall.args.amount # storedDeposit.amount
       THEN Reject(400, "Transfer amount mismatch")
       ELSE IF BigIntThrows(body.userOp.preVerificationGas)
       THEN Thrown("SyntaxError")
       ELSE Pass(stored)

\* ValidateFirstCall answering a native value with the target's reason.
ValidateFirstCallOneReason(body, storedDeposit, stored) ==
    LET first == Calls(body)[1]
        decodedTokenCall == first.data
    IN IF toLowerCase(first.target) # toLowerCase(USDC_ADDRESS) \/ first.value # 0
       THEN Reject(400, "Execution target must be USDC")
       ELSE IF decodedTokenCall.functionName \notin UsdcAbiFunctions
       THEN Thrown("AbiFunctionSignatureNotFoundError")
       ELSE IF decodedTokenCall.functionName # "transfer"
       THEN Reject(400, "USDC call must be transfer")
       ELSE IF toLowerCase(decodedTokenCall.args.recipient) # toLowerCase(storedDeposit.sender)
       THEN Reject(400, "Transfer recipient mismatch")
       ELSE IF decodedTokenCall.args.amount # storedDeposit.amount
       THEN Reject(400, "Transfer amount mismatch")
       ELSE IF BigIntThrows(body.userOp.preVerificationGas)
       THEN Thrown("SyntaxError")
       ELSE Pass(stored)

\* Checks on calls[0] and on the token call it carries (index.ts:525-560).
ValidateFirstCall(body, storedDeposit, stored) ==
    LET first == Calls(body)[1]
        target == first.target
        value == first.value
        decodedTokenCall == first.data
        recipient == decodedTokenCall.args.recipient
        transferAmount == decodedTokenCall.args.amount
    IN IF toLowerCase(target) # toLowerCase(USDC_ADDRESS)
       THEN Reject(400, "Execution target must be USDC")
       ELSE IF value # 0
       THEN Reject(400, "USDC transfer cannot include ETH value")
       ELSE IF decodedTokenCall.functionName \notin UsdcAbiFunctions
       THEN Thrown("AbiFunctionSignatureNotFoundError")
       ELSE IF decodedTokenCall.functionName # "transfer"
       THEN Reject(400, "USDC call must be transfer")
       ELSE IF toLowerCase(recipient) # toLowerCase(storedDeposit.sender)
       THEN Reject(400, "Transfer recipient mismatch")
       ELSE IF transferAmount # storedDeposit.amount
       THEN Reject(400, "Transfer amount mismatch")
       ELSE IF BigIntThrows(body.userOp.preVerificationGas)
       THEN Thrown("SyntaxError")
       ELSE Pass(stored)

\* Signature encoding and the checks on the operation (index.ts:467-523).
\* ValidateOperation refusing a batch of more than one call.
ValidateOperationSingleCall(body, storedDeposit, stored) ==
    LET decodedAccountCall == body.userOp.callData
        executionData == decodedAccountCall.args.executionData
    IN IF \/ BigIntThrows(body.metadata.challengeIndex)
          \/ BigIntThrows(body.metadata.typeIndex)
          \/ BigIntThrows(body.nonce)
       THEN Thrown("SyntaxError")
       ELSE IF EncodeSignatureThrows(body)
       THEN Thrown("AbiEncodingBytesSizeMismatchError")
       ELSE IF toLowerCase(body.userOp.sender) # toLowerCase(body.accountAddress)
       THEN Reject(400, "UserOperation sender mismatch")
       ELSE IF decodedAccountCall.functionName \notin AccountAbiFunctions
       THEN Thrown("AbiFunctionSignatureNotFoundError")
       ELSE IF decodedAccountCall.functionName # "execute"
       THEN Reject(400, "Invalid callData function")
       ELSE IF ~executionData.wellFormed
       THEN Thrown("AbiDecodingDataSizeTooSmallError")
       ELSE IF Len(executionData.calls) # 1
       THEN Reject(400, "Missing execution calls")
       ELSE ValidateFirstCall(body, storedDeposit, stored)

ValidateOperation(body, storedDeposit, stored) ==
    LET decodedAccountCall == body.userOp.callData
        executionData == decodedAccountCall.args.executionData
    IN IF \/ BigIntThrows(body.metadata.challengeIndex)
          \/ BigIntThrows(body.metadata.typeIndex)
          \/ BigIntThrows(body.nonce)
       THEN Thrown("SyntaxError")
       ELSE IF EncodeSignatureThrows(body)
       THEN Thrown("AbiEncodingBytesSizeMismatchError")
       ELSE IF toLowerCase(body.userOp.sender) # toLowerCase(body.accountAddress)
       THEN Reject(400, "UserOperation sender mismatch")
       ELSE IF decodedAccountCall.functionName \notin AccountAbiFunctions
       THEN Thrown("AbiFunctionSignatureNotFoundError")
       ELSE IF decodedAccountCall.functionName # "execute"
       THEN Reject(400, "Invalid callData function")
       ELSE IF ~executionData.wellFormed
       THEN Thrown("AbiDecodingDataSizeTooSmallError")
       ELSE IF Len(executionData.calls) = 0
       THEN Reject(400, "Missing execution calls")
       ELSE ValidateFirstCall(body, storedDeposit, stored)

\* Validate with the ready check after the checks on the operation.
ValidateReadyLast(body, store) ==
    LET session == getAccountSession(store, body.accountAddress)
    IN IF session = NoSession
       THEN Reject(404, "Account session not found")
       ELSE IF session.credentialId # body.credentialId
       THEN Reject(403, "Credential mismatch")
       ELSE IF BigIntThrows(body.deposit.amount)
       THEN Thrown("SyntaxError")
       ELSE LET stored == FindDeposit(session.deposits, body.deposit,
                                      BigInt(body.deposit.amount))
                operation == IF stored = 0 THEN Pass(0)
                             ELSE ValidateOperation(body, session.deposits[stored], stored)
            IN IF stored = 0
               THEN Reject(404, "Deposit record not found")
               ELSE IF session.deposits[stored].refunded
               THEN Reject(400, "Deposit already refunded")
               ELSE IF ~operation.pass
               THEN operation
               ELSE IF ~session.deposits[stored].ready
               THEN Reject(400, "Deposit below minimum amount")
               ELSE operation

\* Session, credential and deposit record checks (index.ts:436-465).
Validate(body, store) ==
    LET session == getAccountSession(store, body.accountAddress)
    IN IF session = NoSession
       THEN Reject(404, "Account session not found")
       ELSE IF session.credentialId # body.credentialId
       THEN Reject(403, "Credential mismatch")
       ELSE IF BigIntThrows(body.deposit.amount)
       THEN Thrown("SyntaxError")
       ELSE LET stored == FindDeposit(session.deposits, body.deposit,
                                      BigInt(body.deposit.amount))
            IN IF stored = 0
               THEN Reject(404, "Deposit record not found")
               ELSE IF session.deposits[stored].refunded
               THEN Reject(400, "Deposit already refunded")
               ELSE IF ~session.deposits[stored].ready
               THEN Reject(400, "Deposit below minimum amount")
               ELSE ValidateOperation(body, session.deposits[stored], stored)

----------------------------------------------------------------------------
(* Remote ledger: getLogs answers with the Transfer logs of a block range  *)
(* in (block number, log index) order.                                     *)

LogBefore(a, b) ==
    \/ a.blockNumber < b.blockNumber
    \/ a.blockNumber = b.blockNumber /\ a.logIndex < b.logIndex

RECURSIVE Sorted(_)
Sorted(logs) ==
    IF logs = {} THEN <<>>
    ELSE LET first == CHOOSE a \in logs : \A b \in logs \ {a} : LogBefore(a, b)
         IN <<first>> \o Sorted(logs \ {first})

getLogs(fromBlock, toBlock) ==
    Sorted({log \in ChainLogs : fromBlock <= log.blockNumber /\ log.blockNumber <= toBlock})

----------------------------------------------------------------------------
(* ensureDepositWatcher / hydrateDeposits / fetchTransferLogs invocations, *)
(* subscriptions and onLogs invocations.                                   *)

EnsureIds == 1 .. MaxEnsures
WatcherIds == 1 .. MaxWatchers
OnLogsIds == 1 .. MaxOnLogs

\* `before` holds the session's lastSyncedBlock as hydrateDeposits read it
\* (index.ts:172), NoBlock for undefined; `queries` counts the getLogs calls
\* fetchTransferLogs has made.
IdleEnsure ==
    [pc |-> "idle", key |-> NoSession, attach |-> FALSE, latestBlock |-> NoBlock,
     start |-> NoBlock, end |-> NoBlock, cursor |-> NoBlock, toBlock |-> NoBlock,
     logs |-> <<>>, i |-> 0, timestampCache |-> {}, outcome |-> "",
     thrownBy |-> "", watching |-> FALSE, before |-> NoBlock, queries |-> 0]

NoWatcher == [state |-> "none", key |-> NoSession, previousBlockNumber |-> NoBlock]

IdleOnLogs ==
    [pc |-> "idle", key |-> NoSession, logs |-> <<>>, i |-> 0, timestampCache |-> {}]

----------------------------------------------------------------------------
(* POST /account/refund: one invocation per request slot. *)

RequestIds == 1 .. MaxRequests

NoBody == [none |-> TRUE]
NoResponse == [status |-> 0, error |-> "", thrown |-> "", hash |-> NoHash]

Idle ==
    [pc |-> "idle", body |-> NoBody, key |-> NoSession, storedDeposit |-> 0,
     hash |-> NoHash, receipt |-> "", response |-> NoResponse]

\* The handler returned c.json(...): the invocation holds nothing else any more.
Responded(response) == [Idle EXCEPT !.pc = "responded", !.response = response]

ErrorResponse(status, error, thrown) ==
    [status |-> status, error |-> error, thrown |-> thrown, hash |-> NoHash]

\* MarkRefunded that also clears the ready flag of the record it marks.
MarkRefundedClearsReady(deposits, ref, hash) ==
    [i \in DOMAIN deposits |->
        IF deposits[i].ref = ref
        THEN [deposits[i] EXCEPT !.refunded = TRUE, !.refundTxHash = hash,
                                 !.ready = FALSE]
        ELSE deposits[i]]

\* MarkRefunded storing the hash without raising the flag.
MarkRefundedHashOnly(deposits, ref, hash) ==
    [i \in DOMAIN deposits |->
        IF deposits[i].ref = ref
        THEN [deposits[i] EXCEPT !.refundTxHash = hash]
        ELSE deposits[i]]

\* storedDeposit.refunded = true; storedDeposit.refundTxHash = hash, on the
\* record object the handler found (it may have left the ledger since).
MarkRefunded(deposits, ref, hash) ==
    [i \in DOMAIN deposits |->
        IF deposits[i].ref = ref
        THEN [deposits[i] EXCEPT !.refunded = TRUE, !.refundTxHash = hash]
        ELSE deposits[i]]

Init ==
    /\ accountStore = <<>>
    /\ nextRef = 1
    /\ refund = [r \in RequestIds |-> Idle]
    /\ sentTx = 0
    /\ head = 0
    /\ ensure = [t \in EnsureIds |-> IdleEnsure]
    /\ watchers = [w \in WatcherIds |-> NoWatcher]
    /\ onLogs = [d \in OnLogsIds |-> IdleOnLogs]

\* upsertAccountSession as POST /account/create calls it (index.ts:369).
UpsertSession(address, credentialId) ==
    /\ accountStore' = upsertAccountSession(accountStore, address, credentialId)
    /\ UNCHANGED <<nextRef, refundVars, ingestVars>>

\* The body of both merge loops after the timestamp lookup: the record is
\* built and merged and the cursor set (index.ts:216-228 and 285-297).
MergeLog(session, log, ref) ==
    [session EXCEPT
        !.deposits = recordDeposit(session.deposits,
                         DepositRecord(log, BlockTimestamp(log.blockNumber), ref)),
        !.lastSyncedBlock = log.blockNumber]

\* The record built for log enters the ledger as a new object.
IsFresh(session, log) == ~IsDuplicate(session.deposits, DepositRecord(log, 0, 0))

\* One transfer log reaches the session through either merge loop.
DeliverLog(key, log) ==
    /\ key \in DOMAIN accountStore
    /\ LET session == accountStore[key]
       IN /\ IsFresh(session, log) => nextRef <= MaxRecords
          /\ accountStore' = [accountStore EXCEPT ![key] = MergeLog(session, log, nextRef)]
          /\ nextRef' = IF IsFresh(session, log) THEN nextRef + 1 ELSE nextRef
    /\ UNCHANGED <<refundVars, ingestVars>>

\* RefundRequest reserving the deposit it found before the checks on the
\* operation, and keeping the reservation when they fail.
RefundRequestReserves(r, body) ==
    /\ refund[r].pc = "idle"
    /\ LET result == Validate(body, accountStore)
           key == normalizeAddress(body.accountAddress)
           session == getAccountSession(accountStore, body.accountAddress)
           found == IF session = NoSession \/ BigIntThrows(body.deposit.amount) THEN 0
                    ELSE FindDeposit(session.deposits, body.deposit,
                                     BigInt(body.deposit.amount))
       IN /\ refund' = [refund EXCEPT ![r] =
                 IF result.pass
                 THEN [pc |-> "simulateContract", body |-> body, key |-> key,
                       storedDeposit |-> accountStore[key].deposits[result.stored].ref,
                       hash |-> NoHash, receipt |-> "", response |-> NoResponse]
                 ELSE Responded(ErrorResponse(result.status, result.error, result.thrown))]
          /\ accountStore' =
                 IF found = 0 \/ result.pass THEN accountStore
                 ELSE [accountStore EXCEPT ![key].deposits[found].refunded = TRUE]
    /\ UNCHANGED <<nextRef, sentTx, ingestVars>>

\* RefundRequest handing the operation to the wallet without a simulation.
RefundRequestNoSimulation(r, body) ==
    /\ refund[r].pc = "idle"
    /\ LET result == Validate(body, accountStore)
           key == normalizeAddress(body.accountAddress)
       IN refund' = [refund EXCEPT ![r] =
              IF result.pass
              THEN [pc |-> "writeContract", body |-> body, key |-> key,
                    storedDeposit |-> accountStore[key].deposits[result.stored].ref,
                    hash |-> NoHash, receipt |-> "", response |-> NoResponse]
              ELSE Responded(ErrorResponse(result.status, result.error, result.thrown))]
    /\ UNCHANGED <<accountStore, nextRef, sentTx, ingestVars>>

\* The request arrives; the handler runs to its first await or to a response.
RefundRequest(r, body) ==
    /\ refund[r].pc = "idle"
    /\ LET result == Validate(body, accountStore)
           key == normalizeAddress(body.accountAddress)
       IN refund' = [refund EXCEPT ![r] =
              IF result.pass
              THEN [pc |-> "simulateContract", body |-> body, key |-> key,
                    storedDeposit |-> accountStore[key].deposits[result.stored].ref,
                    hash |-> NoHash, receipt |-> "", response |-> NoResponse]
              ELSE Responded(ErrorResponse(result.status, result.error, result.thrown))]
    /\ UNCHANGED <<accountStore, nextRef, sentTx, ingestVars>>

\* publicClient.simulateContract resolves.
SimulateReturns(r) ==
    /\ refund[r].pc = "simulateContract"
    /\ refund' = [refund EXCEPT ![r].pc = "writeContract"]
    /\ UNCHANGED <<accountStore, nextRef, sentTx, ingestVars>>

\* A remote call of the submitter rejects: the catch answers 500.
RemoteCallThrows(r) ==
    /\ refund[r].pc \in {"simulateContract", "writeContract", "waitForTransactionReceipt"}
    /\ refund' = [refund EXCEPT ![r] =
           Responded(ErrorResponse(500, "Failed to refund", refund[r].pc))]
    /\ UNCHANGED <<accountStore, nextRef, sentTx, ingestVars>>

\* walletClient.writeContract resolves with the hash of a new transaction.
WriteReturns(r) ==
    /\ refund[r].pc = "writeContract"
    /\ sentTx < MaxBroadcasts
    /\ sentTx' = sentTx + 1
    /\ refund' = [refund EXCEPT ![r].pc = "waitForTransactionReceipt",
                                ![r].hash = sentTx + 1]
    /\ UNCHANGED <<accountStore, nextRef, ingestVars>>

\* ReceiptReverted marking the record all the same.
ReceiptRevertedMarks(r) ==
    /\ refund[r].pc = "waitForTransactionReceipt"
    /\ accountStore' = [accountStore EXCEPT ![refund[r].key] =
           [@ EXCEPT !.deposits =
               MarkRefunded(@, refund[r].storedDeposit, refund[r].hash)]]
    /\ refund' = [refund EXCEPT ![r] =
           [Responded(ErrorResponse(500, "Failed to Refund: Reverted", ""))
               EXCEPT !.receipt = "reverted"]]
    /\ UNCHANGED <<nextRef, sentTx, ingestVars>>

\* ReceiptReverted answering through the handler's catch.
ReceiptRevertedThrows(r) ==
    /\ refund[r].pc = "waitForTransactionReceipt"
    /\ refund' = [refund EXCEPT ![r] =
           [Responded(ErrorResponse(500, "Failed to refund", "Reverted"))
               EXCEPT !.receipt = "reverted"]]
    /\ UNCHANGED <<accountStore, nextRef, sentTx, ingestVars>>

\* The receipt arrives with status "reverted".
ReceiptReverted(r) ==
    /\ refund[r].pc = "waitForTransactionReceipt"
    /\ refund' = [refund EXCEPT ![r] =
           [Responded(ErrorResponse(500, "Failed to Refund: Reverted", ""))
               EXCEPT !.receipt = "reverted"]]
    /\ UNCHANGED <<accountStore, nextRef, sentTx, ingestVars>>

\* The receipt arrives with status "success": the record is marked.
ReceiptSuccess(r) ==
    /\ refund[r].pc = "waitForTransactionReceipt"
    /\ LET key == refund[r].key
           session == accountStore[key]
       IN accountStore' = [accountStore EXCEPT ![key] =
              [session EXCEPT !.deposits =
                  MarkRefunded(session.deposits, refund[r].storedDeposit, refund[r].hash)]]
    /\ refund' = [refund EXCEPT ![r] =
           [Responded([status |-> 200, error |-> "", thrown |-> "",
                       hash |-> refund[r].hash])
               EXCEPT !.receipt = "success"]]
    /\ UNCHANGED <<nextRef, sentTx, ingestVars>>

\* The client has read the response; the slot serves the next request.
ResponseRead(r) ==
    /\ refund[r].pc = "responded"
    /\ refund' = [refund EXCEPT ![r] = Idle]
    /\ UNCHANGED <<accountStore, nextRef, sentTx, ingestVars>>

Submitter(r) ==
    \/ SimulateReturns(r)
    \/ WriteReturns(r)
    \/ ReceiptReverted(r)
    \/ ReceiptSuccess(r)
    \/ RemoteCallThrows(r)
    \/ ResponseRead(r)

Ingestion ==
    \/ \E credentialId \in CredentialIds : UpsertSession(ACCOUNT, credentialId)
    \/ \E log \in ChainLogs : DeliverLog(normalizeAddress(ACCOUNT), log)

\* The requests of the concurrent runs: the well-formed one for each deposit.
ConcurrentBodies == {RefundBodyFor(log) : log \in ChainLogs}

Next ==
    \/ Ingestion
    \/ \E r \in RequestIds, body \in ConcurrentBodies : RefundRequest(r, body)
    \/ \E r \in RequestIds : Submitter(r)

Spec == Init /\ [][Next]_vars

\* Every pending remote call of a refund request resolves or rejects, and
\* every response is read.
SpecFair == Spec /\ \A r \in RequestIds : WF_vars(Submitter(r))

\* One request at a time, with every request body of RequestBodies.
NextSequential ==
    \/ Ingestion
    \/ \E body \in RequestBodies : RefundRequest(1, body)
    \/ Submitter(1)

SpecSequential == Init /\ [][NextSequential]_vars

----------------------------------------------------------------------------
(* Ingestion: ensureDepositWatcher, hydrateDeposits, fetchTransferLogs and *)
(* the live subscription.  Every await is a step.                          *)

\* The merge loops `continue` on a log without block number (0n is falsy),
\* log index, transaction hash, sender or value.
Skipped(log) == log.blockNumber = 0

\* The next position from i on whose log the loop does not skip.
RECURSIVE NextLog(_, _)
NextLog(logs, i) ==
    IF i > Len(logs) THEN i
    ELSE IF Skipped(logs[i]) THEN NextLog(logs, i + 1)
    ELSE i

\* FromBlock going back to the first block when the session has no cursor.
FromBlockFullHistory(session, latestBlock) ==
    IF session.lastSyncedBlock # NoBlock THEN session.lastSyncedBlock + 1
    ELSE 0

\* fetchTransferLogs asking for single blocks.
ChunkEndSingleBlock(cursor, end) == cursor

\* hydrateDeposits' choice of the first block to fetch (index.ts:172-178).
FromBlock(session, latestBlock) ==
    IF session.lastSyncedBlock # NoBlock THEN session.lastSyncedBlock + 1
    ELSE IF latestBlock > DEFAULT_LOOKBACK_BLOCKS THEN latestBlock - DEFAULT_LOOKBACK_BLOCKS
    ELSE 0

\* ChunkEnd taking one block more than the span.
ChunkEndWide(cursor, end) ==
    IF cursor + MAX_GET_LOGS_RANGE > end THEN end ELSE cursor + MAX_GET_LOGS_RANGE

\* fetchTransferLogs' toBlock of the chunk that starts at cursor.
ChunkEnd(cursor, end) ==
    IF cursor + MAX_GET_LOGS_RANGE - 1 > end THEN end ELSE cursor + MAX_GET_LOGS_RANGE - 1

\* NextCursor leaving a block out between two chunks.
NextCursorSkips(toBlock) == toBlock + 2

\* fetchTransferLogs' start of the chunk after the one that ends at toBlock.
NextCursor(toBlock) == toBlock + 1

\* hydrateDeposits' last statement (index.ts:231-233).
CloseCursor(session, latestBlock) ==
    IF session.lastSyncedBlock = NoBlock \/ session.lastSyncedBlock < latestBlock
    THEN [session EXCEPT !.lastSyncedBlock = latestBlock]
    ELSE session

FreeWatcher ==
    CHOOSE w \in WatcherIds :
        /\ watchers[w].state = "none"
        /\ \A v \in WatcherIds : watchers[v].state = "none" => w <= v

\* hydrateDeposits resolved leaving session: ensureDepositWatcher returns, or
\* subscribes and sets the handle and the flag (index.ts:246, 256-312); the
\* caller answers with session.isWatching.
HydrateReturns(t, session) ==
    IF ensure[t].attach
    THEN /\ \E w \in WatcherIds : watchers[w].state = "none"
         /\ watchers' = [watchers EXCEPT ![FreeWatcher] =
                [state |-> "polling", key |-> ensure[t].key,
                 previousBlockNumber |-> NoBlock]]
         /\ accountStore' = [accountStore EXCEPT ![ensure[t].key] =
                [session EXCEPT !.stopWatching = TRUE, !.isWatching = TRUE]]
         /\ ensure' = [ensure EXCEPT ![t] =
                [IdleEnsure EXCEPT !.pc = "responded", !.outcome = "ok",
                                   !.watching = TRUE]]
    ELSE /\ watchers' = watchers
         /\ accountStore' = [accountStore EXCEPT ![ensure[t].key] = session]
         /\ ensure' = [ensure EXCEPT ![t] =
                [IdleEnsure EXCEPT !.pc = "responded", !.outcome = "ok",
                                   !.watching = session.isWatching]]

\* StartEnsure that never subscribes.
StartEnsureNeverAttaches(t, store, address) ==
    [IdleEnsure EXCEPT !.pc = "getBlockNumber",
                       !.key = normalizeAddress(address),
                       !.attach = FALSE]

\* StartEnsure that subscribes whatever the flag says.
StartEnsureAlwaysAttaches(t, store, address) ==
    [IdleEnsure EXCEPT !.pc = "getBlockNumber",
                       !.key = normalizeAddress(address),
                       !.attach = TRUE]

\* ensureDepositWatcher up to hydrateDeposits' first await (index.ts:236-254, 169).
StartEnsure(t, store, address) ==
    LET session == getAccountSession(store, address)
    IN [IdleEnsure EXCEPT !.pc = "getBlockNumber",
                          !.key = normalizeAddress(address),
                          !.attach = ~session.isWatching]

\* GET /account/:address/deposits for an address with a session.
GetDeposits(t, address) ==
    /\ ensure[t].pc = "idle"
    /\ getAccountSession(accountStore, address) # NoSession
    /\ ensure' = [ensure EXCEPT ![t] =
           StartEnsure(t, accountStore,
                       getAccountSession(accountStore, address).accountAddress)]
    /\ UNCHANGED <<accountStore, nextRef, refundVars, head, watchers, onLogs>>

\* POST /account/create once the account is deployed and funded (index.ts:369-370).
CreateAccount(t, address, credentialId) ==
    /\ ensure[t].pc = "idle"
    /\ accountStore' = upsertAccountSession(accountStore, address, credentialId)
    /\ ensure' = [ensure EXCEPT ![t] = StartEnsure(t, accountStore', address)]
    /\ UNCHANGED <<nextRef, refundVars, head, watchers, onLogs>>

\* getBlockNumber resolves (index.ts:169-190, 600-613).
BlockNumberReturns(t) ==
    /\ ensure[t].pc = "getBlockNumber"
    /\ LET session == accountStore[ensure[t].key]
           latestBlock == head
           fromBlock == FromBlock(session, latestBlock)
       IN IF fromBlock > latestBlock
          THEN HydrateReturns(t, [session EXCEPT !.lastSyncedBlock = latestBlock])
          ELSE /\ ensure' = [ensure EXCEPT ![t].pc = "getLogs",
                                           ![t].latestBlock = latestBlock,
                                           ![t].before = session.lastSyncedBlock,
                                           ![t].start = fromBlock,
                                           ![t].end = latestBlock,
                                           ![t].cursor = fromBlock,
                                           ![t].toBlock = ChunkEnd(fromBlock, latestBlock),
                                           ![t].queries = 1]
               /\ UNCHANGED <<accountStore, watchers>>
    /\ UNCHANGED <<nextRef, refundVars, head, onLogs>>

\* getLogs resolves for the chunk [cursor, toBlock] (index.ts:606-617, 192-214).
GetLogsReturns(t) ==
    /\ ensure[t].pc = "getLogs"
    /\ ensure[t].key # NoSession
    /\ LET task == ensure[t]
           session == accountStore[task.key]
           logs == task.logs \o getLogs(task.cursor, task.toBlock)
           cursor == NextCursor(task.toBlock)
       IN IF cursor <= task.end
          THEN /\ ensure' = [ensure EXCEPT ![t].logs = logs, ![t].cursor = cursor,
                                           ![t].toBlock = ChunkEnd(cursor, task.end),
                                           ![t].queries = @ + 1]
               /\ UNCHANGED <<accountStore, watchers>>
          ELSE IF Len(logs) = 0
          THEN HydrateReturns(t, [session EXCEPT !.lastSyncedBlock = task.latestBlock])
          ELSE IF NextLog(logs, 1) > Len(logs)
          THEN HydrateReturns(t, CloseCursor(session, task.latestBlock))
          ELSE /\ ensure' = [ensure EXCEPT ![t].pc = "getBlockTimestamp",
                                           ![t].logs = logs,
                                           ![t].cursor = cursor,
                                           ![t].i = NextLog(logs, 1)]
               /\ UNCHANGED <<accountStore, watchers>>
    /\ UNCHANGED <<nextRef, refundVars, head, onLogs>>

\* getBlockTimestamp resolves for logs[i]: merge, then the next log or the
\* end of hydrateDeposits (index.ts:210-233).
TimestampReturns(t) ==
    /\ ensure[t].pc = "getBlockTimestamp"
    /\ LET task == ensure[t]
           log == task.logs[task.i]
           session == accountStore[task.key]
           merged == MergeLog(session, log, nextRef)
           next == NextLog(task.logs, task.i + 1)
       IN /\ IsFresh(session, log) => nextRef <= MaxRecords
          /\ nextRef' = IF IsFresh(session, log) THEN nextRef + 1 ELSE nextRef
          /\ IF next <= Len(task.logs)
             THEN /\ accountStore' = [accountStore EXCEPT ![task.key] = merged]
                  /\ ensure' = [ensure EXCEPT
                         ![t].i = next,
                         ![t].timestampCache = @ \cup {log.blockNumber}]
                  /\ watchers' = watchers
             ELSE HydrateReturns(t, CloseCursor(merged, task.latestBlock))
    /\ UNCHANGED <<refundVars, head, onLogs>>

\* EnsureFails keeping the blocks fetched before the failed query as synced.
EnsureFailsKeepsProgress(t) ==
    /\ \/ ensure[t].pc \in {"getBlockNumber", "getLogs"}
       \/ /\ ensure[t].pc = "getBlockTimestamp"
          /\ ensure[t].logs[ensure[t].i].blockNumber \notin ensure[t].timestampCache
    /\ ensure' = [ensure EXCEPT ![t] =
           [IdleEnsure EXCEPT !.pc = "responded", !.outcome = "failed",
                              !.thrownBy = ensure[t].pc]]
    /\ accountStore' =
           IF ensure[t].pc = "getLogs" /\ ensure[t].cursor > ensure[t].start
           THEN [accountStore EXCEPT ![ensure[t].key].lastSyncedBlock = ensure[t].cursor - 1]
           ELSE accountStore
    /\ UNCHANGED <<nextRef, refundVars, head, watchers, onLogs>>

\* A remote call of hydrateDeposits rejects (a cached timestamp never does):
\* ensureDepositWatcher rejects and the caller answers 500.
EnsureFails(t) ==
    /\ \/ ensure[t].pc \in {"getBlockNumber", "getLogs"}
       \/ /\ ensure[t].pc = "getBlockTimestamp"
          /\ ensure[t].logs[ensure[t].i].blockNumber \notin ensure[t].timestampCache
    /\ ensure' = [ensure EXCEPT ![t] =
           [IdleEnsure EXCEPT !.pc = "responded", !.outcome = "failed",
                              !.thrownBy = ensure[t].pc]]
    /\ UNCHANGED <<accountStore, nextRef, refundVars, head, watchers, onLogs>>

\* The caller of GET or POST /account/create has read the response.
EnsureRead(t) ==
    /\ ensure[t].pc = "responded"
    /\ ensure' = [ensure EXCEPT ![t] = IdleEnsure]
    /\ UNCHANGED <<accountStore, nextRef, refundVars, head, watchers, onLogs>>

\* A poll cycle of a subscription: the first one notes the head; a later one
\* hands the logs of the blocks since the last cycle to onLogs, which runs to
\* its first await (index.ts:256-283).
Poll(w, d) ==
    /\ watchers[w].state = "polling"
    /\ LET previous == watchers[w].previousBlockNumber
           logs == getLogs(previous + 1, head)
       IN /\ previous = NoBlock \/ previous < head
          /\ watchers' = [watchers EXCEPT ![w].previousBlockNumber = head]
          /\ IF previous = NoBlock \/ NextLog(logs, 1) > Len(logs)
             THEN onLogs' = onLogs
             ELSE /\ onLogs[d].pc = "idle"
                  /\ \A e \in OnLogsIds : onLogs[e].pc = "idle" => d <= e
                  /\ onLogs' = [onLogs EXCEPT ![d] =
                         [pc |-> "getBlockTimestamp", key |-> watchers[w].key,
                          logs |-> logs, i |-> NextLog(logs, 1),
                          timestampCache |-> {}]]
    /\ UNCHANGED <<accountStore, nextRef, refundVars, head, ensure>>

\* A poll cycle fails: onError (index.ts:300-304).
PollFails(w) ==
    /\ watchers[w].state = "polling"
    /\ accountStore' = [accountStore EXCEPT ![watchers[w].key] =
           [@ EXCEPT !.isWatching = FALSE, !.stopWatching = FALSE]]
    /\ UNCHANGED <<nextRef, refundVars, head, ensure, watchers, onLogs>>

\* onLogs: getBlockTimestamp resolves for logs[i]; merge and go on (index.ts:279-298).
OnLogsTimestampReturns(d) ==
    /\ onLogs[d].pc = "getBlockTimestamp"
    /\ LET call == onLogs[d]
           log == call.logs[call.i]
           session == accountStore[call.key]
           next == NextLog(call.logs, call.i + 1)
       IN /\ IsFresh(session, log) => nextRef <= MaxRecords
          /\ nextRef' = IF IsFresh(session, log) THEN nextRef + 1 ELSE nextRef
          /\ accountStore' = [accountStore EXCEPT ![call.key] = MergeLog(session, log, nextRef)]
          /\ onLogs' = [onLogs EXCEPT ![d] =
                 IF next <= Len(call.logs)
                 THEN [call EXCEPT !.i = next,
                                   !.timestampCache = @ \cup {log.blockNumber}]
                 ELSE IdleOnLogs]
    /\ UNCHANGED <<refundVars, head, ensure, watchers>>

\* onLogs: an uncached timestamp lookup rejects and onLogs ends there.
OnLogsFails(d) ==
    /\ onLogs[d].pc = "getBlockTimestamp"
    /\ onLogs[d].logs[onLogs[d].i].blockNumber \notin onLogs[d].timestampCache
    /\ onLogs' = [onLogs EXCEPT ![d] = IdleOnLogs]
    /\ UNCHANGED <<accountStore, nextRef, refundVars, head, ensure, watchers>>

\* The chain grows by a block.
Mine ==
    /\ head < MaxHead
    /\ head' = head + 1
    /\ UNCHANGED <<accountStore, nextRef, refundVars, ensure, watchers, onLogs>>

NextIngest ==
    \/ Mine
    \/ \E t \in EnsureIds, credentialId \in {"cred1"} : CreateAccount(t, ACCOUNT, credentialId)
    \/ \E t \in EnsureIds, address \in {ACCOUNT, toLowerCase(ACCOUNT)} : GetDeposits(t, address)
    \/ \E t \in EnsureIds : BlockNumberReturns(t)
    \/ \E t \in EnsureIds : GetLogsReturns(t)
    \/ \E t \in EnsureIds : TimestampReturns(t)
    \/ \E t \in EnsureIds : EnsureFails(t)
    \/ \E t \in EnsureIds : EnsureRead(t)
    \/ \E w \in WatcherIds, d \in OnLogsIds : Poll(w, d)
    \/ \E w \in WatcherIds : PollFails(w)
    \/ \E d \in OnLogsIds : OnLogsTimestampReturns(d)
    \/ \E d \in OnLogsIds : OnLogsFails(d)

SpecIngest == Init /\ [][NextIngest]_vars

\* The registry under account creation with either spelling of the address
\* and any credential, with one ensureDepositWatcher run at a time and
\* polling failures of the subscriptions.
NextRegistry ==
    \/ Mine
    \/ \E address \in {ACCOUNT, toLowerCase(ACCOUNT)}, credentialId \in CredentialIds :
        CreateAccount(1, address, credentialId)
    \/ \E address \in {ACCOUNT, toLowerCase(ACCOUNT)} : GetDeposits(1, address)
    \/ BlockNumberReturns(1)
    \/ GetLogsReturns(1)
    \/ TimestampReturns(1)
    \/ EnsureFails(1)
    \/ EnsureRead(1)
    \/ \E w \in WatcherIds : PollFails(w)

SpecRegistry == Init /\ [][NextRegistry]_vars

\* fetchTransferLogs called on its own with any start and end, up to its first
\* getLogs call or, with no block to query, its return (index.ts:593-603, 619).
FetchTransferLogs(t, start, end) ==
    /\ ensure[t].pc = "idle"
    /\ ensure' = [ensure EXCEPT ![t] =
           IF start <= end
           THEN [IdleEnsure EXCEPT !.pc = "getLogs", !.start = start, !.end = end,
                                   !.cursor = start,
                                   !.toBlock = ChunkEnd(start, end),
                                   !.queries = 1]
           ELSE [IdleEnsure EXCEPT !.pc = "responded", !.outcome = "ok",
                                   !.start = start, !.end = end,
                                   !.cursor = start]]
    /\ UNCHANGED <<accountStore, nextRef, refundVars, head, watchers, onLogs>>

\* getLogs resolves for the chunk [cursor, toBlock] of a fetchTransferLogs
\* called on its own: the next chunk, or the return (index.ts:602-619).
FetchReturns(t) ==
    /\ ensure[t].pc = "getLogs"
    /\ ensure[t].key = NoSession
    /\ LET task == ensure[t]
           logs == task.logs \o getLogs(task.cursor, task.toBlock)
           cursor == NextCursor(task.toBlock)
       IN ensure' = [ensure EXCEPT ![t] =
              IF cursor <= task.end
              THEN [task EXCEPT !.logs = logs, !.cursor = cursor,
                                !.toBlock = ChunkEnd(cursor, task.end),
                                !.queries = @ + 1]
              ELSE [task EXCEPT !.pc = "responded", !.outcome = "ok",
                                !.logs = logs, !.cursor = cursor]]
    /\ UNCHANGED <<accountStore, nextRef, refundVars, head, watchers, onLogs>>

\* The server starts with the chain at any height.
InitFetch ==
    /\ accountStore = <<>>
    /\ nextRef = 1
    /\ refund = [r \in RequestIds |-> Idle]
    /\ sentTx = 0
    /\ head \in 0 .. MaxFetchHead
    /\ ensure = [t \in EnsureIds |-> IdleEnsure]
    /\ watchers = [w \in WatcherIds |-> NoWatcher]
    /\ onLogs = [d \in OnLogsIds |-> IdleOnLogs]

\* Backfill and catch-up runs one at a time in which every remote call
\* returns, and fetchTransferLogs called on its own.
NextFetch ==
    \/ Mine
    \/ GetDeposits(1, ACCOUNT)
    \/ CreateAccount(1, ACCOUNT, "cred1")
    \/ BlockNumberReturns(1)
    \/ GetLogsReturns(1)
    \/ TimestampReturns(1)
    \/ EnsureRead(1)
    \/ \E start, end \in 0 .. MaxFetchHead : FetchTransferLogs(1, start, end)
    \/ FetchReturns(1)

SpecFetch == InitFetch /\ [][NextFetch]_vars

\* Every remote call that is pending returns.
SpecFetchLive ==
    /\ SpecFetch
    /\ WF_vars(BlockNumberReturns(1))
    /\ WF_vars(GetLogsReturns(1))
    /\ WF_vars(TimestampReturns(1))
    /\ WF_vars(FetchReturns(1))

----------------------------------------------------------------------------
(* Properties *)

Sessions == DOMAIN accountStore

InFlight(call) ==
    call.pc \in {"simulateContract", "writeContract", "waitForTransactionReceipt"}

\* Two spellings of one address.
SameAddress(a, b) == a.id = b.id

\* C1: once a deposit record's refundTxHash is set it never changes again, and
\* no request is handed to the submitter against a record that is refunded,
\* whatever the interleaving of refund requests.
C1_RefundTxHashNeverOverwritten ==
    [][/\ \A key \in Sessions :
            \A i \in DOMAIN accountStore[key].deposits :
                \A j \in DOMAIN accountStore'[key].deposits :
                    LET old == accountStore[key].deposits[i]
                        new == accountStore'[key].deposits[j]
                    IN (old.ref = new.ref /\ old.refundTxHash # NoHash)
                           => new.refundTxHash = old.refundTxHash
       /\ \A r \in RequestIds :
            (refund[r].pc = "idle" /\ refund'[r].pc = "simulateContract")
                => \A i \in DOMAIN accountStore[refund'[r].key].deposits :
                       accountStore[refund'[r].key].deposits[i].ref = refund'[r].storedDeposit
                           => ~accountStore[refund'[r].key].deposits[i].refunded
      ]_vars

\* The twelve checks of the refund validator, on a request and the registry.
AllTwelveChecks(body, store) ==
    \E key \in DOMAIN store :
        /\ SameAddress(key, body.accountAddress)
        /\ store[key].credentialId = body.credentialId
        /\ body.deposit.amount.numeric
        /\ \E i \in DOMAIN store[key].deposits :
            LET record == store[key].deposits[i]
                callData == body.userOp.callData
            IN /\ record.txHash = body.deposit.txHash
               /\ record.logIndex = body.deposit.logIndex
               /\ SameAddress(record.sender, body.deposit.sender)
               /\ record.amount = body.deposit.amount.value
               /\ ~record.refunded
               /\ record.ready
               /\ SameAddress(body.userOp.sender, body.accountAddress)
               /\ callData.functionName = "execute"
               /\ callData.args.executionData.wellFormed
               /\ Calls(body) # <<>>
               /\ SameAddress(Calls(body)[1].target, USDC_ADDRESS)
               /\ Calls(body)[1].value = 0
               /\ Calls(body)[1].data.functionName = "transfer"
               /\ SameAddress(Calls(body)[1].data.args.recipient, record.sender)
               /\ Calls(body)[1].data.args.amount = record.amount

\* C2: a request enters simulation only in the step that validated it, with all
\* twelve checks holding on the registry of that moment, and the broadcast and
\* the receipt wait that follow are for that same request.
C2_SubmitOnlyAfterAllChecks ==
    [][\A r \in RequestIds :
        /\ (~InFlight(refund[r]) /\ InFlight(refund'[r]))
               => /\ refund[r].pc = "idle"
                  /\ refund'[r].pc = "simulateContract"
                  /\ AllTwelveChecks(refund'[r].body, accountStore)
        /\ (InFlight(refund[r]) /\ InFlight(refund'[r]))
               => refund'[r].body = refund[r].body
      ]_vars

\* A request passed validation, was simulated and broadcast.
C2_Witness ==
    \E r \in RequestIds : refund[r].pc = "waitForTransactionReceipt"

\* The step is the one in which invocation r got a "success" receipt.
GotSuccessReceipt(r) ==
    /\ refund[r].pc = "waitForTransactionReceipt"
    /\ refund'[r].pc = "responded"
    /\ refund'[r].receipt = "success"

\* C3: a record of a ledger is refunded after a step only if it was so before,
\* with the same refundTxHash, or the step is the arrival of a "success"
\* receipt for the transaction broadcast for a request validated against that
\* record, whose hash becomes the refundTxHash; a step in which the submitter
\* fails or the receipt is "reverted" changes no session.
C3_RefundedOnlyAfterSuccessReceipt ==
    [][/\ \A key \in Sessions :
            \A j \in DOMAIN accountStore'[key].deposits :
                LET new == accountStore'[key].deposits[j]
                IN (new.refunded \/ new.refundTxHash # NoHash)
                     => \/ \E i \in DOMAIN accountStore[key].deposits :
                              /\ accountStore[key].deposits[i].ref = new.ref
                              /\ accountStore[key].deposits[i].refunded
                              /\ accountStore[key].deposits[i] = new
                        \/ \E r \in RequestIds :
                              /\ GotSuccessReceipt(r)
                              /\ refund[r].key = key
                              /\ refund[r].storedDeposit = new.ref
                              /\ refund[r].hash # NoHash
                              /\ new.refundTxHash = refund[r].hash
                              /\ new.refunded
       /\ \A r \in RequestIds :
            (InFlight(refund[r]) /\ refund'[r].pc = "responded" /\ ~GotSuccessReceipt(r))
                => accountStore' = accountStore
      ]_vars

\* A record was marked refunded with the hash of a broadcast transaction.
C3_Witness ==
    \E key \in Sessions : \E i \in DOMAIN accountStore[key].deposits :
        /\ accountStore[key].deposits[i].refunded
        /\ accountStore[key].deposits[i].refundTxHash # NoHash

\* C4: no ledger holds two records with the same (txHash, logIndex), whatever
\* the interleaving of backfills, catch-up runs and live deliveries.
C4_NoDuplicateRecords ==
    \A key \in Sessions :
        \A i, j \in DOMAIN accountStore[key].deposits :
            (/\ accountStore[key].deposits[i].txHash = accountStore[key].deposits[j].txHash
             /\ accountStore[key].deposits[i].logIndex = accountStore[key].deposits[j].logIndex)
                => i = j

\* A catch-up run and a live delivery have both merged the same log, and a
\* second one of the same transaction, and the ledger holds each once.
C4_Witness ==
    \E t \in EnsureIds, d \in OnLogsIds :
        /\ ensure[t].pc = "getBlockTimestamp"
        /\ onLogs[d].pc = "getBlockTimestamp"
        /\ ensure[t].i = 2
        /\ onLogs[d].i = 2
        /\ ensure[t].logs[1] = onLogs[d].logs[1]
        /\ Len(accountStore[ensure[t].key].deposits) = 1
        /\ accountStore[ensure[t].key].deposits[1].txHash = ensure[t].logs[1].transactionHash
        /\ accountStore[ensure[t].key].deposits[1].logIndex = ensure[t].logs[1].logIndex

\* The step is one in which invocation r answered at validation.
RejectedAtValidation(r) == refund[r].pc = "idle" /\ refund'[r].pc = "responded"

\* The record of a ledger that a request's deposit reference names.
Referenced(body, deposits) ==
    {i \in DOMAIN deposits :
        /\ deposits[i].txHash = body.deposit.txHash
        /\ deposits[i].logIndex = body.deposit.logIndex
        /\ SameAddress(deposits[i].sender, body.deposit.sender)
        /\ body.deposit.amount.numeric
        /\ deposits[i].amount = body.deposit.amount.value}

\* C5: a success receipt for a request validated against a record of exactly
\* the threshold amount leaves that record (while the ledger retains it)
\* refunded; and whenever the session's credential is the request's and the
\* ledger holds the refunded record, the well-formed request for it is
\* rejected with "Deposit already refunded", in a step that changes nothing.
C5_ThresholdRefundThenRejected ==
    /\ [][\A r \in RequestIds :
            /\ GotSuccessReceipt(r) =>
                 \A i \in DOMAIN accountStore[refund[r].key].deposits :
                    (/\ accountStore[refund[r].key].deposits[i].ref = refund[r].storedDeposit
                     /\ accountStore[refund[r].key].deposits[i].amount = MIN_USDC_DEPOSIT)
                        => /\ accountStore'[refund[r].key].deposits[i].refunded
                           /\ accountStore'[refund[r].key].deposits[i].refundTxHash = refund[r].hash
            /\ (RejectedAtValidation(r) /\ refund'[r].response.error = "Deposit already refunded")
                 => UNCHANGED <<accountStore, nextRef, sentTx>>
         ]_vars
    /\ [](\A key \in Sessions :
            LET body == [RefundBodyFor(LogAtThreshold) EXCEPT
                            !.credentialId = accountStore[key].credentialId]
            IN (\E i \in Referenced(body, accountStore[key].deposits) :
                    accountStore[key].deposits[i].refunded)
                 => Validate(body, accountStore) = Reject(400, "Deposit already refunded"))

\* The threshold deposit is refunded and a repeat of its request was rejected.
C5_Witness ==
    \E r \in RequestIds, key \in Sessions :
        /\ refund[r].pc = "responded"
        /\ refund[r].response.status = 400
        /\ refund[r].response.error = "Deposit already refunded"
        /\ \E i \in DOMAIN accountStore[key].deposits :
            /\ accountStore[key].deposits[i].amount = MIN_USDC_DEPOSIT
            /\ accountStore[key].deposits[i].refunded

TamperedFields == {"recipient", "transferAmount", "target", "value", "userOpSender"}

\* C6: for every request that passes validation, altering the transfer
\* recipient, the transfer amount, the first call's target, its native value
\* or the operation's sender makes validation answer 400, with five reasons
\* that differ from one another; a request answered at validation changes
\* neither registry, ledger nor cursor.
C6_TamperRejected ==
    /\ [](\A body \in RequestBodies :
            Validate(body, accountStore).pass =>
                /\ \A kind \in TamperedFields :
                     LET result == Validate(Tamper(body, kind), accountStore)
                     IN ~result.pass /\ result.status = 400 /\ result.thrown = ""
                /\ \A k1, k2 \in TamperedFields :
                     k1 # k2 => Validate(Tamper(body, k1), accountStore).error
                                    # Validate(Tamper(body, k2), accountStore).error)
    /\ [][\A r \in RequestIds :
            RejectedAtValidation(r) => UNCHANGED <<accountStore, nextRef, sentTx>>]_vars

\* A request with only its transfer amount wrong was answered.
C6_Witness ==
    \E r \in RequestIds :
        /\ refund[r].pc = "responded"
        /\ refund[r].response.status = 400
        /\ refund[r].response.error = "Transfer amount mismatch"

\* C7: a step in which a refund request is answered at validation leaves every
\* session (credential, ledger, watcher flags, cursor) and every subscription
\* as it was.
C7_RejectionChangesNothing ==
    [][\A r \in RequestIds :
        RejectedAtValidation(r) =>
            UNCHANGED <<accountStore, nextRef, sentTx, head, ensure, watchers, onLogs>>]_vars

\* A request was rejected against a session that holds deposits.
C7_Witness ==
    \E r \in RequestIds, key \in Sessions :
        /\ refund[r].pc = "responded"
        /\ refund[r].response.status \in {400, 403, 404}
        /\ accountStore[key].deposits # <<>>
        /\ accountStore[key].lastSyncedBlock # NoBlock

\* The session a request names, however its address is spelled.
SessionOf(body, store) == {key \in DOMAIN store : SameAddress(key, body.accountAddress)}

\* The numbers of the checks 1 to 12 that a request fails against a store.
\* Checks on something an earlier check did not find are not counted.
FailingChecks(body, store) ==
    LET keys == SessionOf(body, store)
        session == store[CHOOSE key \in keys : TRUE]
        records == IF keys = {} THEN {} ELSE Referenced(body, session.deposits)
        record == session.deposits[CHOOSE i \in records : \A j \in records : i <= j]
        call == body.userOp.callData
        batch == call.functionName = "execute" /\ Calls(body) # <<>>
        first == Calls(body)[1]
        transfer == batch /\ first.data.functionName = "transfer"
    IN   (IF keys = {} THEN {1} ELSE {})
    \cup (IF keys # {} /\ session.credentialId # body.credentialId THEN {2} ELSE {})
    \cup (IF keys # {} /\ records = {} THEN {3} ELSE {})
    \cup (IF records # {} /\ record.refunded THEN {4} ELSE {})
    \cup (IF records # {} /\ ~record.ready THEN {5} ELSE {})
    \cup (IF ~SameAddress(body.userOp.sender, body.accountAddress) THEN {6} ELSE {})
    \cup (IF call.functionName # "execute" THEN {7} ELSE {})
    \cup (IF call.functionName = "execute" /\ Calls(body) = <<>> THEN {8} ELSE {})
    \cup (IF batch /\ (~SameAddress(first.target, USDC_ADDRESS) \/ first.value # 0)
          THEN {9} ELSE {})
    \cup (IF batch /\ first.data.functionName # "transfer" THEN {10} ELSE {})
    \cup (IF transfer /\ records # {}
             /\ ~SameAddress(first.data.args.recipient, record.sender)
          THEN {11} ELSE {})
    \cup (IF transfer /\ records # {} /\ first.data.args.amount # record.amount
          THEN {12} ELSE {})

\* The answer that names check n.
ReasonOf(n, body) ==
    CASE n = 1 -> Reject(404, "Account session not found")
      [] n = 2 -> Reject(403, "Credential mismatch")
      [] n = 3 -> Reject(404, "Deposit record not found")
      [] n = 4 -> Reject(400, "Deposit already refunded")
      [] n = 5 -> Reject(400, "Deposit below minimum amount")
      [] n = 6 -> Reject(400, "UserOperation sender mismatch")
      [] n = 7 -> Reject(400, "Invalid callData function")
      [] n = 8 -> Reject(400, "Missing execution calls")
      [] n = 9 -> IF ~SameAddress(Calls(body)[1].target, USDC_ADDRESS)
                  THEN Reject(400, "Execution target must be USDC")
                  ELSE Reject(400, "USDC transfer cannot include ETH value")
      [] n = 10 -> Reject(400, "USDC call must be transfer")
      [] n = 11 -> Reject(400, "Transfer recipient mismatch")
      [] n = 12 -> Reject(400, "Transfer amount mismatch")

LowestFailing(body, store) ==
    CHOOSE n \in FailingChecks(body, store) : \A m \in FailingChecks(body, store) : n <= m

\* Ceremony metadata, nonce or deposit amount that is not a number.
MalformedNumbers(body) ==
    \/ ~body.metadata.challengeIndex.numeric
    \/ ~body.metadata.typeIndex.numeric
    \/ ~body.nonce.numeric
    \/ ~body.deposit.amount.numeric

\* C8: a request (with a decodable execution batch) that fails more than one
\* of the checks 1 to 12, or fails one and carries malformed ceremony
\* metadata, nonce or deposit amount, is answered with the reason of the
\* lowest-numbered check it fails.
C8_LowestFailingCheckReported ==
    \A body \in RequestBodies :
        LET failing == FailingChecks(body, accountStore)
        IN (/\ body.userOp.callData.args.executionData.wellFormed
            /\ failing # {}
            /\ (Cardinality(failing) > 1 \/ MalformedNumbers(body)))
              => Validate(body, accountStore)
                    = ReasonOf(LowestFailing(body, accountStore), body)

\* C9: a request that passes the checks 1 to 6 with well-formed numbers and
\* signature, and whose outer call data is not a call of execute (whether of
\* another function of the account's ABI or of none), is answered 400 "Invalid
\* callData function"; one that passes the checks 1 to 9 and whose nested call
\* data is not a call of transfer (whether of another function of the token's
\* ABI or of none) is answered 400 "USDC call must be transfer".
C9_UndecodableCallDataRejectedSpecifically ==
    \A body \in RequestBodies :
        LET failing == FailingChecks(body, accountStore)
        IN (/\ body.userOp.callData.args.executionData.wellFormed
            /\ ~MalformedNumbers(body)
            /\ ~EncodeSignatureThrows(body)
            /\ failing # {}
            /\ LowestFailing(body, accountStore) \in {7, 10})
              => Validate(body, accountStore)
                    = ReasonOf(LowestFailing(body, accountStore), body)

\* The request names a session with its credential and an unrefunded record
\* that is not ready.
BelowMinimumCase(body, store) ==
    \E key \in SessionOf(body, store) :
        /\ store[key].credentialId = body.credentialId
        /\ \E i \in Referenced(body, store[key].deposits) :
            /\ ~store[key].deposits[i].refunded
            /\ ~store[key].deposits[i].ready

\* C10: a request whose session exists, whose credential matches and whose
\* deposit reference matches an unrefunded record with ready = false is
\* answered 400 "Deposit below minimum amount" whatever its other fields hold,
\* and no request in simulation, broadcast or receipt wait refers to a deposit
\* below the threshold.
C10_BelowMinimumAlwaysRejected ==
    /\ \A body \in RequestBodies :
        BelowMinimumCase(body, accountStore)
            => Validate(body, accountStore) = Reject(400, "Deposit below minimum amount")
    /\ \A r \in RequestIds :
        InFlight(refund[r]) => BigInt(refund[r].body.deposit.amount) >= MIN_USDC_DEPOSIT

\* A request against the record below the threshold, with a further field
\* altered, was answered.
C10_Witness ==
    \E r \in RequestIds, key \in Sessions :
        /\ refund[r].pc = "responded"
        /\ refund[r].response.status = 400
        /\ refund[r].response.error = "Deposit below minimum amount"
        /\ \E i \in DOMAIN accountStore[key].deposits :
            /\ ~accountStore[key].deposits[i].ready
            /\ ~accountStore[key].deposits[i].refunded

\* C11: every record of every ledger, whether a backfill or a live delivery
\* built it, has ready = (amount >= MIN_USDC_DEPOSIT); a record of exactly the
\* threshold is ready and one of the threshold minus one is not.
C11_ReadyIffAtLeastThreshold ==
    \A key \in Sessions :
        \A i \in DOMAIN accountStore[key].deposits :
            LET record == accountStore[key].deposits[i]
            IN /\ record.ready <=> record.amount >= MIN_USDC_DEPOSIT
               /\ record.amount = MIN_USDC_DEPOSIT => record.ready
               /\ record.amount = MIN_USDC_DEPOSIT - 1 => ~record.ready

\* A ledger holds the record of the threshold amount and the one below it
\* while a subscription has polled past their block.
C11_Witness ==
    \E key \in Sessions, w \in WatcherIds :
        /\ watchers[w].state = "polling"
        /\ watchers[w].previousBlockNumber >= 1
        /\ \E i, j \in DOMAIN accountStore[key].deposits :
            /\ accountStore[key].deposits[i].amount = MIN_USDC_DEPOSIT
            /\ accountStore[key].deposits[i].ready
            /\ accountStore[key].deposits[j].amount = MIN_USDC_DEPOSIT - 1
            /\ ~accountStore[key].deposits[j].ready

\* C12: while fetchTransferLogs runs, the logs gathered so far are those a
\* single query over [start, cursor - 1] returns, in its order; the sequence
\* it returns to the merge loop is the one a single query over [start, end]
\* returns; and when hydrateDeposits finds nothing to merge, the single query
\* holds nothing to merge either.
C12_ChunkedFetchEqualsSingleQuery ==
    /\ [](\A t \in EnsureIds :
            /\ ensure[t].pc = "getLogs"
                 => ensure[t].logs = getLogs(ensure[t].start, ensure[t].cursor - 1)
            /\ ensure[t].pc = "getBlockTimestamp"
                 => ensure[t].logs = getLogs(ensure[t].start, ensure[t].end))
    /\ [][\A t \in EnsureIds :
            (/\ ensure[t].pc = "getLogs"
             /\ ensure'[t].pc = "responded"
             /\ ensure'[t].outcome = "ok")
                => LET single == getLogs(ensure[t].start, ensure[t].end)
                   IN NextLog(single, 1) > Len(single)]_vars

\* A fetch of two chunks returned events of both sides of the boundary.
C12_Witness ==
    \E t \in EnsureIds :
        /\ ensure[t].pc = "getBlockTimestamp"
        /\ ensure[t].end - ensure[t].start + 1 > MAX_GET_LOGS_RANGE
        /\ \E i, j \in DOMAIN ensure[t].logs :
            /\ ensure[t].logs[i].blockNumber < ensure[t].start + MAX_GET_LOGS_RANGE
            /\ ensure[t].logs[j].blockNumber >= ensure[t].start + MAX_GET_LOGS_RANGE

\* C13: every getLogs query of a fetch over [start, end] lies inside
\* [start, end] and covers at most MAX_GET_LOGS_RANGE blocks; the first one
\* starts at start, each next one starts at the previous toBlock + 1, and the
\* fetch returns only after the query that ends at end.
C13_ChunksPartitionTheRange ==
    /\ [](\A t \in EnsureIds :
            ensure[t].pc = "getLogs" =>
                /\ ensure[t].start <= ensure[t].cursor
                /\ ensure[t].cursor <= ensure[t].toBlock
                /\ ensure[t].toBlock <= ensure[t].end
                /\ ensure[t].toBlock - ensure[t].cursor + 1 <= MAX_GET_LOGS_RANGE)
    /\ [][\A t \in EnsureIds :
            /\ (ensure[t].pc = "getBlockNumber" /\ ensure'[t].pc = "getLogs")
                 => ensure'[t].cursor = ensure'[t].start
            /\ (ensure[t].pc = "getLogs" /\ ensure'[t].pc = "getLogs")
                 => /\ ensure'[t].start = ensure[t].start
                    /\ ensure'[t].end = ensure[t].end
                    /\ \/ ensure'[t].cursor = ensure[t].toBlock + 1
                       \/ ensure'[t] = ensure[t]
            /\ (/\ ensure[t].pc = "getLogs"
                /\ \/ ensure'[t].pc = "getBlockTimestamp"
                   \/ ensure'[t].pc = "responded" /\ ensure'[t].outcome = "ok")
                 => ensure[t].toBlock = ensure[t].end]_vars

\* The second and last query of a fetch is in flight.
C13_Witness ==
    \E t \in EnsureIds :
        /\ ensure[t].pc = "getLogs"
        /\ ensure[t].cursor = ensure[t].start + MAX_GET_LOGS_RANGE
        /\ ensure[t].toBlock = ensure[t].end

\* C14: a step in which a getLogs query of a fetch fails ends the run with no
\* events and leaves every session, ledger and cursor as it was, so that the
\* next run computes the same first block; and no step of a run up to the end
\* of its fetch writes to a session.
C14_FailedFetchChangesNothing ==
    [][\A t \in EnsureIds :
        /\ (/\ ensure[t].pc = "getLogs"
            /\ ensure'[t].pc = "responded"
            /\ ensure'[t].outcome = "failed")
             => /\ ensure'[t].logs = <<>>
                /\ accountStore' = accountStore
                /\ nextRef' = nextRef
                /\ \A latestBlock \in 0 .. MaxHead :
                     FromBlock(accountStore'[ensure[t].key], latestBlock)
                        = FromBlock(accountStore[ensure[t].key], latestBlock)
        /\ (/\ ensure[t].pc \in {"getBlockNumber", "getLogs"}
            /\ ensure'[t].pc = "getLogs"
            /\ ensure'[t] # ensure[t])
             => accountStore' = accountStore /\ nextRef' = nextRef]_vars

\* A catch-up run failed in its fetch and the session still has the cursor
\* and the ledger it had.
C14_Witness ==
    \E t \in EnsureIds, key \in Sessions :
        /\ ensure[t].pc = "responded"
        /\ ensure[t].outcome = "failed"
        /\ ensure[t].thrownBy = "getLogs"
        /\ accountStore[key].lastSyncedBlock # NoBlock
        /\ accountStore[key].lastSyncedBlock < head
        /\ accountStore[key].deposits # <<>>

\* C15: in every step, a session's lastSyncedBlock, once set, does not
\* become smaller.
C15_CursorNeverDecreases ==
    [][\A key \in Sessions :
        accountStore[key].lastSyncedBlock # NoBlock
            => accountStore'[key].lastSyncedBlock >= accountStore[key].lastSyncedBlock]_vars

\* The subscriptions of a session that are polling.
Subscriptions(key) == {w \in WatcherIds : watchers[w].state = "polling" /\ watchers[w].key = key}

\* C16: at any time a session has at most one polling subscription.
C16_AtMostOneSubscription ==
    \A key \in Sessions : Cardinality(Subscriptions(key)) <= 1

\* C17: a step in which a polling failure takes a session from watching to
\* not watching also ends one of its polling subscriptions, and leaves its
\* lastSyncedBlock as it was.
C17_PollingFailureDetaches ==
    [][\A key \in Sessions :
        (accountStore[key].isWatching /\ ~accountStore'[key].isWatching)
            => /\ Cardinality({w \in WatcherIds : /\ watchers'[w].state = "polling"
                                                   /\ watchers'[w].key = key})
                    < Cardinality(Subscriptions(key))
               /\ accountStore'[key].lastSyncedBlock = accountStore[key].lastSyncedBlock]_vars

\* The ledger holds the record of a log.
InLedger(deposits, log) ==
    \E i \in DOMAIN deposits :
        /\ deposits[i].txHash = log.transactionHash
        /\ deposits[i].logIndex = log.logIndex

\* A merge loop in progress for the session still holds the log.
PendingMerge(key, log) ==
    \/ \E t \in EnsureIds :
        /\ ensure[t].pc = "getBlockTimestamp"
        /\ ensure[t].key = key
        /\ \E j \in ensure[t].i .. Len(ensure[t].logs) : ensure[t].logs[j] = log
    \/ \E d \in OnLogsIds :
        /\ onLogs[d].pc = "getBlockTimestamp"
        /\ onLogs[d].key = key
        /\ \E j \in onLogs[d].i .. Len(onLogs[d].logs) : onLogs[d].logs[j] = log

\* No first backfill can have started after this block.
FirstBackfillStartAtMost ==
    IF head > DEFAULT_LOOKBACK_BLOCKS THEN head - DEFAULT_LOOKBACK_BLOCKS ELSE 0

\* C18: whenever a session's lastSyncedBlock is c, every transfer to the
\* account in a block from the first backfill's start to c has been passed to
\* recordDeposit, or is about to be by a merge loop in progress.  Stated for
\* ledgers that never evicted (shorter than MAX_DEPOSITS), where passed to
\* recordDeposit means held by the ledger.
C18_NoEventBelowCursorLost ==
    \A key \in Sessions :
        (/\ accountStore[key].lastSyncedBlock # NoBlock
         /\ Len(accountStore[key].deposits) < MAX_DEPOSITS)
            => \A log \in ChainLogs :
                (/\ FirstBackfillStartAtMost <= log.blockNumber
                 /\ log.blockNumber <= accountStore[key].lastSyncedBlock)
                    => \/ InLedger(accountStore[key].deposits, log)
                       \/ PendingMerge(key, log)

\* An ensureDepositWatcher run that is to subscribe returns in this step.
AttachCompletes(t) ==
    /\ ensure[t].attach
    /\ ensure[t].pc \in {"getBlockNumber", "getLogs", "getBlockTimestamp"}
    /\ ensure'[t].pc = "responded"
    /\ ensure'[t].outcome = "ok"

\* C19: a run of ensureDepositWatcher started for a session that is not
\* watching (as after a polling failure) is one that subscribes; its backfill
\* fetches from lastSyncedBlock + 1, or fetches nothing when that is beyond
\* the head; when it succeeds the session has one polling subscription more,
\* isWatching is true and the read answers watching = true; and isWatching
\* becomes true in no other step.
C19_ReadReconnects ==
    [][/\ \A t \in EnsureIds :
            /\ (/\ ensure[t].pc = "idle"
                /\ ensure'[t].pc = "getBlockNumber"
                /\ ensure'[t].key \in Sessions
                /\ ~accountStore[ensure'[t].key].isWatching)
                 => ensure'[t].attach
            /\ (/\ ensure[t].attach
                /\ ensure[t].pc = "getBlockNumber"
                /\ ensure'[t].pc # "getBlockNumber"
                /\ ensure'[t].outcome # "failed"
                /\ accountStore[ensure[t].key].lastSyncedBlock # NoBlock)
                 => IF ensure'[t].pc = "getLogs"
                    THEN ensure'[t].start = accountStore[ensure[t].key].lastSyncedBlock + 1
                    ELSE accountStore[ensure[t].key].lastSyncedBlock + 1 > head
            /\ AttachCompletes(t)
                 => /\ ensure'[t].watching
                    /\ accountStore'[ensure[t].key].isWatching
                    /\ Cardinality({w \in WatcherIds : /\ watchers'[w].state = "polling"
                                                       /\ watchers'[w].key = ensure[t].key})
                         = Cardinality(Subscriptions(ensure[t].key)) + 1
       /\ \A key \in Sessions :
            (~accountStore[key].isWatching /\ accountStore'[key].isWatching)
                => \E t \in EnsureIds : AttachCompletes(t) /\ ensure[t].key = key]_vars

\* After a polling failure, the only run in progress is a read's backfill
\* that starts at lastSyncedBlock + 1 and is to subscribe.
C19_Witness ==
    \E t \in EnsureIds :
        /\ ensure[t].pc = "getLogs"
        /\ ensure[t].attach
        /\ \A u \in EnsureIds \ {t} : ensure[u].pc = "idle"
        /\ ~accountStore[ensure[t].key].isWatching
        /\ Subscriptions(ensure[t].key) # {}
        /\ accountStore[ensure[t].key].lastSyncedBlock # NoBlock
        /\ ensure[t].start = accountStore[ensure[t].key].lastSyncedBlock + 1

\* C20: a run of ensureDepositWatcher started for a session that is watching
\* is one that does not subscribe; none of its steps changes a subscription,
\* the session's handle or its flag; and its catch-up fetch is over
\* [lastSyncedBlock + 1, head], or fetches nothing when that range is empty.
C20_StartWhileWatchingOnlyCatchesUp ==
    [][\A t \in EnsureIds :
        /\ (/\ ensure[t].pc = "idle"
            /\ ensure'[t].pc = "getBlockNumber"
            /\ ensure'[t].key \in Sessions
            /\ accountStore[ensure'[t].key].isWatching)
             => ~ensure'[t].attach
        /\ (/\ ensure[t].pc \in {"getBlockNumber", "getLogs", "getBlockTimestamp"}
            /\ ~ensure[t].attach
            /\ ensure'[t] # ensure[t])
             => /\ watchers' = watchers
                /\ accountStore'[ensure[t].key].isWatching
                     = accountStore[ensure[t].key].isWatching
                /\ accountStore'[ensure[t].key].stopWatching
                     = accountStore[ensure[t].key].stopWatching
        /\ (/\ ensure[t].pc = "getBlockNumber"
            /\ ~ensure[t].attach
            /\ ensure'[t].pc # "getBlockNumber"
            /\ ensure'[t].outcome # "failed")
             => IF ensure'[t].pc = "getLogs"
                THEN /\ ensure'[t].start = accountStore[ensure[t].key].lastSyncedBlock + 1
                     /\ ensure'[t].end = head
                ELSE accountStore[ensure[t].key].lastSyncedBlock + 1 > head]_vars

\* A run that does not subscribe has fetched events for a watching session
\* with its one subscription.
C20_Witness ==
    \E t \in EnsureIds :
        /\ ensure[t].pc = "getBlockTimestamp"
        /\ ~ensure[t].attach
        /\ accountStore[ensure[t].key].isWatching
        /\ accountStore[ensure[t].key].stopWatching
        /\ Cardinality(Subscriptions(ensure[t].key)) = 1

\* The highest block number among the logs of a batch.
HighestBlock(logs) ==
    CHOOSE b \in {logs[i].blockNumber : i \in DOMAIN logs} :
        \A i \in DOMAIN logs : logs[i].blockNumber <= b

\* C21: a poll cycle of a watching session's subscription that hands no
\* events to onLogs leaves the session's lastSyncedBlock at the chain head,
\* and an onLogs call that merges the last event of its batch leaves it at the
\* highest block of the batch.
C21_CursorFollowsEveryPoll ==
    [][/\ \A w \in WatcherIds :
            (/\ watchers[w].state = "polling"
             /\ watchers'[w].previousBlockNumber # watchers[w].previousBlockNumber
             /\ onLogs' = onLogs
             /\ accountStore[watchers[w].key].isWatching)
                => accountStore'[watchers[w].key].lastSyncedBlock = head
       /\ \A d \in OnLogsIds :
            (/\ onLogs[d].pc = "getBlockTimestamp"
             /\ onLogs'[d].pc = "idle"
             /\ accountStore' # accountStore)
                => accountStore'[onLogs[d].key].lastSyncedBlock = HighestBlock(onLogs[d].logs)]_vars

\* C22: a ledger never holds more than MAX_DEPOSITS records and is in order
\* of insertion, newest first; a step that puts a new record into a full
\* ledger puts it at the head and drops exactly the tail, the other records
\* staying as and where they were relative to one another; a step that puts
\* one into a ledger with room drops nothing.
C22_BoundedLedgerEvictsTail ==
    /\ [](\A key \in Sessions :
            LET deposits == accountStore[key].deposits
            IN /\ Len(deposits) <= MAX_DEPOSITS
               /\ \A i, j \in DOMAIN deposits : i < j => deposits[i].ref > deposits[j].ref)
    /\ [][\A key \in Sessions :
            LET old == accountStore[key].deposits
                new == accountStore'[key].deposits
            IN new # old =>
                /\ new[1].ref = nextRef
                /\ ~InLedger(old, [transactionHash |-> new[1].txHash,
                                   logIndex |-> new[1].logIndex])
                /\ IF Len(old) = MAX_DEPOSITS
                   THEN new = <<new[1]>> \o SubSeq(old, 1, Len(old) - 1)
                   ELSE new = <<new[1]>> \o old]_vars

\* More records than a ledger retains were put into one that is full.
C22_Witness ==
    \E key \in Sessions :
        /\ Len(accountStore[key].deposits) = MAX_DEPOSITS
        /\ accountStore[key].deposits[1].ref > MAX_DEPOSITS

\* C23: no step drops from a ledger a record that is ready and not refunded
\* while the ledger holds a more recently inserted record that is not ready.
C23_ReadyRecordOutlivesNonReady ==
    [][\A key \in Sessions :
        LET old == accountStore[key].deposits
            new == accountStore'[key].deposits
        IN \A i \in DOMAIN old :
            (/\ \A j \in DOMAIN new : new[j].ref # old[i].ref
             /\ old[i].ready
             /\ ~old[i].refunded)
                => ~\E k \in DOMAIN old : old[k].ref > old[i].ref /\ ~old[k].ready]_vars

\* C24: the registry holds at most one session per case-folded address, and
\* no session is ever removed; a step that changes a session's credential or
\* the spelling of its address leaves its ledger, its watching flag, its
\* handle and its lastSyncedBlock as they were.
C24_UpsertKeepsSession ==
    /\ [](\A k1, k2 \in Sessions : SameAddress(k1, k2) => k1 = k2)
    /\ [][\A key \in Sessions :
            /\ key \in DOMAIN accountStore'
            /\ (\/ accountStore'[key].credentialId # accountStore[key].credentialId
                \/ accountStore'[key].accountAddress # accountStore[key].accountAddress)
                 => /\ accountStore'[key].deposits = accountStore[key].deposits
                    /\ accountStore'[key].isWatching = accountStore[key].isWatching
                    /\ accountStore'[key].stopWatching = accountStore[key].stopWatching
                    /\ accountStore'[key].lastSyncedBlock = accountStore[key].lastSyncedBlock]_vars

\* A session that holds deposits, a cursor and a subscription is bound to the
\* second credential under the lower-case spelling, and the run that account
\* creation started for it is one for a watching session.
C24_Witness ==
    \E key \in Sessions :
        /\ accountStore[key].credentialId = "cred2"
        /\ accountStore[key].accountAddress = toLowerCase(ACCOUNT)
        /\ accountStore[key].deposits # <<>>
        /\ accountStore[key].isWatching
        /\ accountStore[key].lastSyncedBlock # NoBlock
        /\ ensure[1].pc = "getBlockNumber"
        /\ ~ensure[1].attach

\* C25: a request comes to its broadcast only from its simulation, with the
\* same operation, and to its receipt wait only from its broadcast, which is
\* the one step that sends a transaction; a request whose simulation fails is
\* answered without a transaction sent.
C25_SimulateThenBroadcastThenWait ==
    [][/\ \A r \in RequestIds :
            /\ (refund'[r].pc = "writeContract" /\ refund[r].pc # "writeContract")
                 => /\ refund[r].pc = "simulateContract"
                    /\ refund'[r].body = refund[r].body
                    /\ refund'[r].storedDeposit = refund[r].storedDeposit
            /\ (/\ refund'[r].pc = "waitForTransactionReceipt"
                /\ refund[r].pc # "waitForTransactionReceipt")
                 => /\ refund[r].pc = "writeContract"
                    /\ refund'[r].body = refund[r].body
                    /\ sentTx' = sentTx + 1
                    /\ refund'[r].hash = sentTx'
            /\ (refund[r].pc = "simulateContract" /\ refund'[r].pc = "responded")
                 => sentTx' = sentTx
       /\ sentTx' # sentTx
            => \E r \in RequestIds :
                /\ refund[r].pc = "writeContract"
                /\ refund'[r].pc = "waitForTransactionReceipt"]_vars

\* One request waits for the receipt of the only transaction sent while the
\* other was answered on a failed simulation.
C25_Witness ==
    \E r, q \in RequestIds :
        /\ refund[r].pc = "waitForTransactionReceipt"
        /\ refund[r].hash = sentTx
        /\ sentTx = 1
        /\ refund[q].pc = "responded"
        /\ refund[q].response.status = 500
        /\ refund[q].response.thrown = "simulateContract"

\* C26: a request whose receipt reports a reverted execution is answered 500
\* "Failed to Refund: Reverted", a request whose simulation, broadcast or
\* receipt wait rejects is answered 500 with another text, "Failed to refund"
\* and the error thrown, and neither step changes a record.
C26_RevertedDistinctFromTransportFailure ==
    [][\A r \in RequestIds :
        (InFlight(refund[r]) /\ refund'[r].pc = "responded" /\ refund'[r].receipt # "success")
            => /\ accountStore' = accountStore
               /\ refund'[r].response.status = 500
               /\ IF refund'[r].receipt = "reverted"
                  THEN /\ refund[r].pc = "waitForTransactionReceipt"
                       /\ refund'[r].response.error = "Failed to Refund: Reverted"
                       /\ refund'[r].response.thrown = ""
                  ELSE /\ refund'[r].response.error = "Failed to refund"
                       /\ refund'[r].response.thrown = refund[r].pc]_vars

\* One request was answered on a reverted receipt and another on a rejected
\* receipt wait, and the record both were about is not refunded.
C26_Witness ==
    \E r, q \in RequestIds, key \in Sessions :
        /\ refund[r].pc = "responded"
        /\ refund[r].receipt = "reverted"
        /\ refund[q].pc = "responded"
        /\ refund[q].response.thrown = "waitForTransactionReceipt"
        /\ refund[r].response # refund[q].response
        /\ sentTx = 2
        /\ \A i \in DOMAIN accountStore[key].deposits : ~accountStore[key].deposits[i].refunded
        /\ accountStore[key].deposits # <<>>

\* Calls a request may carry after the first one.
LaterCalls ==
    {<<>>, <<Call(MALLORY, 1, TokenCall("unknown", MALLORY, MIN_USDC_DEPOSIT))>>}

\* C27: two requests that differ only in the calls after the first one of the
\* batch get the same validation result: the same acceptance, on the same
\* record, or the same rejection.
C27_OnlyFirstCallEvaluated ==
    \A body \in RequestBodies :
        Calls(body) # <<>> =>
            \A later \in LaterCalls :
                Validate(WithCalls(body, <<Calls(body)[1]>> \o later), accountStore)
                    = Validate(body, accountStore)

\* A request whose batch holds a second call was accepted and is with the
\* submitter.
C27_Witness ==
    \E r \in RequestIds :
        /\ InFlight(refund[r])
        /\ Len(Calls(refund[r].body)) > 1

\* C28: in every ledger, read from head to tail, no record comes before one
\* of a later (block number, log index).
C28_LedgerNewestFirst ==
    \A key \in Sessions :
        LET deposits == accountStore[key].deposits
        IN \A i, j \in DOMAIN deposits :
            i < j => ~LogBefore(deposits[i], deposits[j])

\* C29: when a remote call of a backfill or catch-up run fails (head lookup,
\* log query or block-timestamp lookup), the session's cursor is the one the
\* run found (the one the session has while the head lookup is pending, the
\* one hydrateDeposits read after it) and the session is not watching.
C29_FailedRunLeavesCursorAndDetaches ==
    [][\A t \in EnsureIds :
          (/\ ensure[t].pc \in {"getBlockNumber", "getLogs", "getBlockTimestamp"}
           /\ ensure'[t].pc = "responded"
           /\ ensure'[t].outcome = "failed")
          => LET key == ensure[t].key
                 found == IF ensure[t].pc = "getBlockNumber"
                          THEN accountStore[key].lastSyncedBlock
                          ELSE ensure[t].before
             IN /\ accountStore'[key].lastSyncedBlock = found
                /\ ~accountStore'[key].isWatching]_vars

\* The fields of a record that insertion fixes.
Inserted(record) ==
    [amount |-> record.amount, sender |-> record.sender, txHash |-> record.txHash,
     logIndex |-> record.logIndex, blockNumber |-> record.blockNumber,
     ready |-> record.ready]

\* C30: a record that a ledger holds before and after a step (further deposit,
\* rebinding, step of a refund request) has the same amount, sender, txHash,
\* logIndex, blockNumber and ready flag after it, and its ready flag is the
\* threshold test of its amount; a record differs after the step in its
\* refunded flag and refund hash at most.
C30_InsertedFieldsNeverChange ==
    /\ [][\A key \in Sessions :
            \A i \in DOMAIN accountStore[key].deposits :
                \A j \in DOMAIN accountStore'[key].deposits :
                    LET old == accountStore[key].deposits[i]
                        new == accountStore'[key].deposits[j]
                    IN old.ref = new.ref =>
                          /\ Inserted(new) = Inserted(old)
                          /\ new = [old EXCEPT !.refunded = new.refunded,
                                               !.refundTxHash = new.refundTxHash]]_vars
    /\ [](\A key \in Sessions :
            \A i \in DOMAIN accountStore[key].deposits :
                accountStore[key].deposits[i].ready
                    <=> accountStore[key].deposits[i].amount >= MIN_USDC_DEPOSIT)

\* A session rebound to the second credential holds two records, one below
\* the threshold and one marked refunded with its hash, while another refund
\* request is in flight.
C30_Witness ==
    \E key \in Sessions, r \in RequestIds :
        /\ accountStore[key].credentialId = "cred2"
        /\ Len(accountStore[key].deposits) = 2
        /\ \E i, j \in DOMAIN accountStore[key].deposits :
              /\ accountStore[key].deposits[i].refunded
              /\ accountStore[key].deposits[i].refundTxHash # NoHash
              /\ accountStore[key].deposits[i].ready
              /\ ~accountStore[key].deposits[j].ready
        /\ InFlight(refund[r])

\* The lowest block a run may query that found the cursor `before` with the
\* head at latestBlock.
LowestQueried(before, latestBlock) ==
    IF before # NoBlock THEN before + 1
    ELSE IF latestBlock - DEFAULT_LOOKBACK_BLOCKS > 0
         THEN latestBlock - DEFAULT_LOOKBACK_BLOCKS
         ELSE 0

\* C31: every getLogs query [cursor, toBlock] of a run of hydrateDeposits that
\* read the head H lies at or above max(0, H - DEFAULT_LOOKBACK_BLOCKS) when
\* the session had no cursor, at or above c + 1 when it had the cursor c, and
\* at or below H; and a run that queries nothing had a cursor at or above H.
C31_BackfillWindow ==
    /\ [](\A t \in EnsureIds :
            (ensure[t].pc = "getLogs" /\ ensure[t].key # NoSession) =>
                /\ ensure[t].latestBlock <= head
                /\ LowestQueried(ensure[t].before, ensure[t].latestBlock) <= ensure[t].cursor
                /\ ensure[t].cursor <= ensure[t].toBlock
                /\ ensure[t].toBlock <= ensure[t].latestBlock)
    /\ [][\A t \in EnsureIds :
            (/\ ensure[t].pc = "getBlockNumber"
             /\ ensure'[t].pc = "getLogs")
                => /\ ensure'[t].latestBlock = head
                   /\ ensure'[t].before = accountStore[ensure[t].key].lastSyncedBlock
                   /\ ensure'[t].cursor = LowestQueried(ensure'[t].before, head)]_vars
    /\ [][\A t \in EnsureIds :
            (/\ ensure[t].pc = "getBlockNumber"
             /\ ensure'[t].pc = "responded")
                => accountStore[ensure[t].key].lastSyncedBlock >= head]_vars

\* The second query of the first backfill of a session, with more blocks
\* below the head than the lookback: it starts above head - lookback.
C31_Witness ==
    \E t \in EnsureIds :
        /\ ensure[t].pc = "getLogs"
        /\ ensure[t].key # NoSession
        /\ ensure[t].before = NoBlock
        /\ ensure[t].latestBlock > DEFAULT_LOOKBACK_BLOCKS + 1
        /\ ensure[t].queries = 2
        /\ ensure[t].cursor > ensure[t].latestBlock - DEFAULT_LOOKBACK_BLOCKS

\* A catch-up run of a session with a cursor queries the blocks above it.
C31_WitnessCursor ==
    \E t \in EnsureIds :
        /\ ensure[t].pc = "getLogs"
        /\ ensure[t].key # NoSession
        /\ ensure[t].before # NoBlock
        /\ ensure[t].cursor = ensure[t].before + 1
        /\ ensure[t].toBlock > ensure[t].cursor

\* ceil((end - start + 1) / MAX_GET_LOGS_RANGE) for start <= end.
ChunksNeeded(start, end) ==
    (end - start + MAX_GET_LOGS_RANGE) \div MAX_GET_LOGS_RANGE

FetchReturned(t) ==
    /\ ensure[t].pc = "getLogs"
    /\ ensure'[t].pc # "getLogs"

\* C32: a fetchTransferLogs whose queries all return comes to its end; called
\* with start > end it returns the empty sequence without a query; otherwise
\* the query it returns after is number ceil((end - start + 1) /
\* MAX_GET_LOGS_RANGE), both called on its own and from hydrateDeposits.
C32_FetchTerminatesAfterCeilQueries ==
    /\ \A t \in EnsureIds : ensure[t].pc = "getLogs" ~> ensure[t].pc # "getLogs"
    /\ [](\A t \in EnsureIds :
            /\ ensure[t].pc = "getLogs" =>
                  /\ ensure[t].start <= ensure[t].end
                  /\ ensure[t].queries >= 1
                  /\ ensure[t].queries <= ChunksNeeded(ensure[t].start, ensure[t].end)
            /\ (ensure[t].pc = "responded" /\ ensure[t].start # NoBlock) =>
                  IF ensure[t].start > ensure[t].end
                  THEN ensure[t].queries = 0 /\ ensure[t].logs = <<>>
                  ELSE ensure[t].queries = ChunksNeeded(ensure[t].start, ensure[t].end))
    /\ [][\A t \in EnsureIds :
            FetchReturned(t) =>
                ensure[t].queries = ChunksNeeded(ensure[t].start, ensure[t].end)]_vars

\* A fetch over a range that is not a multiple of the chunk span returned
\* after its third query.
C32_Witness ==
    \E t \in EnsureIds :
        /\ ensure[t].pc = "responded"
        /\ ensure[t].queries = 3
        /\ (ensure[t].end - ensure[t].start + 1) % MAX_GET_LOGS_RANGE # 0

\* A fetch called with start above end has returned.
C32_WitnessEmpty ==
    \E t \in EnsureIds :
        /\ ensure[t].pc = "responded"
        /\ ensure[t].start > ensure[t].end
        /\ ensure[t].end # NoBlock

\* C33: no two refund requests that passed validation against the same
\* deposit event (txHash, logIndex) of a session have both been broadcast.
C33_OneBroadcastPerDepositEvent ==
    \A r, q \in RequestIds :
        (/\ r # q
         /\ refund[r].hash # NoHash
         /\ refund[q].hash # NoHash
         /\ refund[r].key = refund[q].key)
            => \/ refund[r].body.deposit.txHash # refund[q].body.deposit.txHash
               \/ refund[r].body.deposit.logIndex # refund[q].body.deposit.logIndex

\* The session of ACCOUNT holds a record of the event of log whose refunded
\* flag is flag.
HoldsEvent(log, flag) ==
    /\ normalizeAddress(ACCOUNT) \in DOMAIN accountStore
    /\ \E i \in DOMAIN accountStore[normalizeAddress(ACCOUNT)].deposits :
        LET record == accountStore[normalizeAddress(ACCOUNT)].deposits[i]
        IN /\ record.txHash = log.transactionHash
           /\ record.logIndex = log.logIndex
           /\ record.refunded = flag

\* C34: from the moment the ledger of a session holds a record of a deposit
\* event that is marked refunded, it never holds a record of that event that
\* is not, whatever is evicted and delivered afterwards.
C34_RefundedEventStaysRefunded ==
    \A log \in ChainLogs :
        [](HoldsEvent(log, TRUE) => [](~HoldsEvent(log, FALSE)))

====
